---- MODULE Spec2Model ----
(***************************************************************************)
(* The segmented-transfer and offloaded-execution engine of the WASM       *)
(* service (src/src/services/wasm_service.c).                              *)
(*                                                                         *)
(* Two execution contexts share the file's statics without any lock:       *)
(*   - the transport callback context (the BLE write handlers), which runs *)
(*     one handler at a time; a handler runs to completion except at a     *)
(*     successful k_msgq_put that is followed by more code, where the      *)
(*     kernel may switch to the woken worker thread;                       *)
(*   - the worker thread wasm_work_thread (preemptible priority 5), which  *)
(*     a transport callback may preempt between any two of its accesses    *)
(*     to the statics.                                                     *)
(* The statics are the VARIABLES; every function of the source is an       *)
(* operator from a record of the statics to a record of the statics.       *)
(***************************************************************************)
EXTENDS Integers, Sequences, FiniteSets, TLC

(***************************************************************************)
(* Program constants (wasm_service.h, wasm_service.c).                     *)
(***************************************************************************)
WASM_CODE_BUFFER_SIZE == 32 * 1024
WASM_UPLOAD_CHUNK_SIZE == 244
WASM_FUNCTION_NAME_SIZE == 32

WASM_STATUS_IDLE == 0
WASM_STATUS_RECEIVING == 1
WASM_STATUS_RECEIVED == 2
WASM_STATUS_LOADED == 3
WASM_STATUS_EXECUTING == 4
WASM_STATUS_COMPLETE == 5
WASM_STATUS_ERROR == 6

WASM_ERROR_NONE == 0
WASM_ERROR_BUFFER_OVERFLOW == 1
WASM_ERROR_INVALID_MAGIC == 2
WASM_ERROR_LOAD_FAILED == 3
WASM_ERROR_COMPILE_FAILED == 4
WASM_ERROR_FUNCTION_NOT_FOUND == 5
WASM_ERROR_EXECUTION_FAILED == 6
WASM_ERROR_INVALID_PARAMS == 7
\* load_wasm_module stores this value although the header names no
\* WASM_ERROR_PARSE_FAILED; it is kept distinct from the eight named codes.
WASM_ERROR_PARSE_FAILED == 8

WASM_CMD_START_UPLOAD == 1
WASM_CMD_CONTINUE_UPLOAD == 2
WASM_CMD_END_UPLOAD == 3
WASM_CMD_RESET == 4

WASM_MSGQ_MAX_MSGS == 4

\* BLE_WRITE_WRAPPER_VARIABLE(wasm_upload_handler, 8, 252)
UPLOAD_MIN_LEN == 8
UPLOAD_MAX_LEN == 252
\* sizeof(wasm_upload_packet_t), packed: 1 + 1 + 2 + 4 + 244
SIZEOF_UPLOAD_PACKET == 8 + WASM_UPLOAD_CHUNK_SIZE
\* sizeof(wasm_execute_packet_t), packed: 32 + 4 + 4 * 4
SIZEOF_EXECUTE_PACKET == WASM_FUNCTION_NAME_SIZE + 4 + 16

\* sizeof(wasm_status_packet_t), packed: 1 + 1 + 2 + 4 + 4 + 6
SIZEOF_STATUS_PACKET == 18
WASM_RESULT_DATA_SIZE == 32
\* sizeof(wasm_result_packet_t), packed: 1 + 1 + 4 + 4 + 32
SIZEOF_RESULT_PACKET == 10 + WASM_RESULT_DATA_SIZE

NULL == 0

(***************************************************************************)
(* Bounds of the model.                                                    *)
(***************************************************************************)
\* The transport delivers at most this many writes in one behaviour.
MaxWrites == 3

(***************************************************************************)
(* The statics of wasm_service.c, the worker thread and the transport      *)
(* callback context.                                                       *)
(***************************************************************************)
VARIABLES
    wasm_code_buffer,         \* bytes of the buffer up to its last non-zero byte
    wasm_code_size,
    wasm_bytes_received,
    wasm_total_expected,
    wasm_upload_sequence,
    wasm_status,
    wasm_error_code,
    wasm_env,
    wasm_runtime,
    wasm_module,
    wasm_runtime_initialized,
    last_result,
    last_result_valid,
    wasm_work_queue,          \* the messages held by the k_msgq, oldest first
    worker,                   \* wasm_work_thread: position, msg and locals
    ble,                      \* transport callback context: position, branch
                              \* and runtime calls of the last handler, writes
                              \* delivered, chunks accepted in the transfer
    sprite,                   \* the statics of sprite_service.c
    app                       \* a caller of the public functions: the call,
                              \* its arguments and the value returned

statics == <<wasm_code_buffer, wasm_code_size, wasm_bytes_received,
             wasm_total_expected, wasm_upload_sequence, wasm_status,
             wasm_error_code, wasm_env, wasm_runtime, wasm_module,
             wasm_runtime_initialized, last_result, last_result_valid,
             wasm_work_queue>>

vars == <<statics, worker, ble, sprite, app>>

\* The statics as one record: the state every function of the file works on.
\* m3_calls is the list of Module Runtime operations the running function
\* has invoked (it is no static: the caller supplies and keeps it).
Statics(calls) ==
    [code_buffer |-> wasm_code_buffer,
     code_size |-> wasm_code_size,
     bytes_received |-> wasm_bytes_received,
     total_expected |-> wasm_total_expected,
     upload_sequence |-> wasm_upload_sequence,
     status |-> wasm_status,
     error_code |-> wasm_error_code,
     env |-> wasm_env,
     runtime |-> wasm_runtime,
     module |-> wasm_module,
     runtime_initialized |-> wasm_runtime_initialized,
     last_result |-> last_result,
     last_result_valid |-> last_result_valid,
     work_queue |-> wasm_work_queue,
     m3_calls |-> calls]

\* The statics after a function returned s.
SetStatics(s) ==
    /\ wasm_code_buffer' = s.code_buffer
    /\ wasm_code_size' = s.code_size
    /\ wasm_bytes_received' = s.bytes_received
    /\ wasm_total_expected' = s.total_expected
    /\ wasm_upload_sequence' = s.upload_sequence
    /\ wasm_status' = s.status
    /\ wasm_error_code' = s.error_code
    /\ wasm_env' = s.env
    /\ wasm_runtime' = s.runtime
    /\ wasm_module' = s.module
    /\ wasm_runtime_initialized' = s.runtime_initialized
    /\ last_result' = s.last_result
    /\ last_result_valid' = s.last_result_valid
    /\ wasm_work_queue' = s.work_queue

(***************************************************************************)
(* Memory: the code buffer, memset and memcpy.                             *)
(* A buffer of WASM_CODE_BUFFER_SIZE bytes is kept as the sequence of its  *)
(* bytes up to the last non-zero one; every byte behind it is zero.        *)
(***************************************************************************)
Max(a, b) == IF a >= b THEN a ELSE b
Min(a, b) == IF a <= b THEN a ELSE b

\* buffer[i], i counted from 0 as in C
ByteAt(buffer, i) == IF i < Len(buffer) THEN buffer[i + 1] ELSE 0

RECURSIVE TrimZeros(_)
TrimZeros(bytes) ==
    IF bytes = <<>> \/ bytes[Len(bytes)] # 0 THEN bytes
    ELSE TrimZeros(SubSeq(bytes, 1, Len(bytes) - 1))

\* memset(buffer, 0, sizeof(buffer))
ZeroBuffer == <<>>

\* memcpy(buffer + offset, src, Len(src))
Memcpy(buffer, offset, src) ==
    TrimZeros([i \in 1..Max(Len(buffer), offset + Len(src)) |->
                 IF i > offset /\ i <= offset + Len(src)
                 THEN src[i - offset]
                 ELSE ByteAt(buffer, i - 1)])

\* memset(&last_result, 0, sizeof(last_result))
ZeroResult ==
    [status |-> 0, error_code |-> 0, return_value |-> 0, execution_time_us |-> 0]

(***************************************************************************)
(* Work messages and the message queue (K_MSGQ_DEFINE, K_NO_WAIT).         *)
(***************************************************************************)
WASM_MSG_LOAD_MODULE == "WASM_MSG_LOAD_MODULE"
WASM_MSG_EXECUTE_FUNCTION == "WASM_MSG_EXECUTE_FUNCTION"
WASM_MSG_RESET == "WASM_MSG_RESET"

LoadMsg == [type |-> WASM_MSG_LOAD_MODULE]
ResetMsg == [type |-> WASM_MSG_RESET]

\* A queue that takes one message more than K_MSGQ_DEFINE gives it.
MsgqHasRoomForOneMore(queue) == Len(queue) <= WASM_MSGQ_MAX_MSGS

\* k_msgq_put(&wasm_work_queue, &m, K_NO_WAIT) == 0
MsgqHasRoom(queue) == Len(queue) < WASM_MSGQ_MAX_MSGS

k_msgq_put(queue, m) == IF MsgqHasRoom(queue) THEN Append(queue, m) ELSE queue

(***************************************************************************)
(* reset_upload_state, statement by statement.  The transport context      *)
(* runs all nine statements at once; the worker thread runs them one at a  *)
(* time (reset_wasm_service_internal).                                     *)
(***************************************************************************)
RESET_UPLOAD_STATE_STMTS == 9

reset_upload_state_stmt(s, k) ==
    CASE k = 1 -> [s EXCEPT !.code_size = 0]
      [] k = 2 -> [s EXCEPT !.bytes_received = 0]
      [] k = 3 -> [s EXCEPT !.total_expected = 0]
      [] k = 4 -> [s EXCEPT !.upload_sequence = 0]
      [] k = 5 -> [s EXCEPT !.status = WASM_STATUS_IDLE]
      [] k = 6 -> [s EXCEPT !.error_code = WASM_ERROR_NONE]
      [] k = 7 -> [s EXCEPT !.last_result_valid = FALSE]
      [] k = 8 -> [s EXCEPT !.code_buffer = ZeroBuffer]
      [] k = 9 -> [s EXCEPT !.last_result = ZeroResult]

RECURSIVE reset_upload_state_from(_, _)
reset_upload_state_from(s, k) ==
    IF k > RESET_UPLOAD_STATE_STMTS THEN s
    ELSE reset_upload_state_from(reset_upload_state_stmt(s, k), k + 1)

reset_upload_state(s) == reset_upload_state_from(s, 1)

(***************************************************************************)
(* validate_wasm_magic                                                     *)
(***************************************************************************)
\* A comparison of the first three bytes only.
validate_wasm_magic_first_three(data, size) ==
    IF size < 4 THEN FALSE
    ELSE ByteAt(data, 0) = 0 /\ ByteAt(data, 1) = 97 /\ ByteAt(data, 2) = 115

validate_wasm_magic(data, size) ==
    IF size < 4 THEN FALSE
    ELSE /\ ByteAt(data, 0) = 0
         /\ ByteAt(data, 1) = 97
         /\ ByteAt(data, 2) = 115
         /\ ByteAt(data, 3) = 109

(***************************************************************************)
(* The Module Runtime (wasm3), an external collaborator.  A handle is NULL *)
(* or 1; whether an operation succeeds is the runtime's choice, given to   *)
(* the caller as the outcome o.  Every call is appended to m3_calls.       *)
(***************************************************************************)
M3Outcomes == {"ok", "fail"}

\* Passing a NULL handle to the runtime is undefined: the call may also
\* fault, which stops the system.  Without a NULL handle a "fault" choice
\* is the same as "ok".
M3Any == M3Outcomes \cup {"fault"}
Eff(o, undefined) == IF o = "fault" /\ ~undefined THEN "ok" ELSE o

M3Call(s, op) == [s EXCEPT !.m3_calls = Append(@, op)]

\* wasm_env = m3_NewEnvironment()
m3_NewEnvironment(s, o) ==
    [M3Call(s, "m3_NewEnvironment") EXCEPT !.env = IF o = "ok" THEN 1 ELSE NULL]

\* wasm_runtime = m3_NewRuntime(wasm_env, 16384, NULL)
m3_NewRuntime(s, o) ==
    [M3Call(s, "m3_NewRuntime") EXCEPT !.runtime = IF o = "ok" THEN 1 ELSE NULL]

\* m3_ParseModule(wasm_env, &wasm_module, ...): stores the new module, or
\* NULL when it fails
m3_ParseModule(s, o) ==
    [M3Call(s, "m3_ParseModule") EXCEPT !.module = IF o = "ok" THEN 1 ELSE NULL]

(***************************************************************************)
(* load_wasm_module with ensure_wasm_runtime inlined, one step per access  *)
(* to the statics or to the runtime.  l = [pc, code, ret] are the locals:  *)
(* pc the position, code the error code about to be stored, ret the        *)
(* return value once pc = "ld_return".                                     *)
(***************************************************************************)
LoadEntry == [pc |-> "ld_size", code |-> WASM_ERROR_NONE, ret |-> 0]

LdGoto(s, l, pc) == [s |-> s, l |-> [l EXCEPT !.pc = pc]]
LdFail(s, l, code) == [s |-> s, l |-> [l EXCEPT !.pc = "ld_err", !.code = code]]
LdReturn(s, l, ret) == [s |-> s, l |-> [l EXCEPT !.pc = "ld_return", !.ret = ret]]
Fault(s, l) == [s |-> s, l |-> [l EXCEPT !.pc = "fault"]]

load_wasm_module_step(s, l, o) ==
    CASE l.pc = "ld_size" ->
            \* if (wasm_code_size == 0)
            IF s.code_size = 0 THEN LdFail(s, l, WASM_ERROR_INVALID_PARAMS)
            ELSE LdGoto(s, l, "ld_ensure")
      [] l.pc = "ld_ensure" ->
            \* ensure_wasm_runtime: if (wasm_runtime_initialized) return 0
            IF s.runtime_initialized THEN LdGoto(s, l, "ld_magic")
            ELSE LdGoto(s, l, "ld_new_env")
      [] l.pc = "ld_new_env" ->
            LET s1 == m3_NewEnvironment(s, Eff(o, FALSE)) IN
            IF s1.env = NULL THEN LdFail(s1, l, WASM_ERROR_LOAD_FAILED)
            ELSE LdGoto(s1, l, "ld_new_runtime")
      [] l.pc = "ld_new_runtime" ->
            IF Eff(o, s.env = NULL) = "fault" THEN Fault(M3Call(s, "m3_NewRuntime"), l)
            ELSE LET s1 == m3_NewRuntime(s, Eff(o, s.env = NULL)) IN
                 IF s1.runtime = NULL THEN LdGoto(s1, l, "ld_free_env")
                 ELSE LdGoto(s1, l, "ld_set_init")
      [] l.pc = "ld_free_env" ->
            \* m3_FreeEnvironment(wasm_env); wasm_env = NULL
            LdFail([M3Call(s, "m3_FreeEnvironment") EXCEPT !.env = NULL],
                   l, WASM_ERROR_LOAD_FAILED)
      [] l.pc = "ld_set_init" ->
            LdGoto([s EXCEPT !.runtime_initialized = TRUE], l, "ld_magic")
      [] l.pc = "ld_magic" ->
            IF ~validate_wasm_magic(s.code_buffer, s.code_size)
            THEN LdFail(s, l, WASM_ERROR_INVALID_MAGIC)
            ELSE LdGoto(s, l, "ld_env_check")
      [] l.pc = "ld_env_check" ->
            \* if (wasm_env == NULL) return -1: no error code is stored
            IF s.env = NULL THEN LdReturn(s, l, -1)
            ELSE LdGoto(s, l, "ld_parse")
      [] l.pc = "ld_parse" ->
            LET e == Eff(o, s.env = NULL) IN
            IF e = "fault" THEN Fault(M3Call(s, "m3_ParseModule"), l)
            ELSE IF e # "ok" THEN LdFail(m3_ParseModule(s, e), l, WASM_ERROR_PARSE_FAILED)
            ELSE LdGoto(m3_ParseModule(s, e), l, "ld_load")
      [] l.pc = "ld_load" ->
            \* m3_LoadModule(wasm_runtime, wasm_module)
            LET e == Eff(o, s.runtime = NULL \/ s.module = NULL)
                s1 == M3Call(s, "m3_LoadModule")
            IN IF e = "fault" THEN Fault(s1, l)
               ELSE IF e # "ok" THEN LdFail(s1, l, WASM_ERROR_LOAD_FAILED)
               ELSE LdGoto(s1, l, "ld_compile")
      [] l.pc = "ld_compile" ->
            \* m3_CompileModule(wasm_module)
            LET e == Eff(o, s.module = NULL)
                s1 == M3Call(s, "m3_CompileModule")
            IN IF e = "fault" THEN Fault(s1, l)
               ELSE IF e # "ok" THEN LdFail(s1, l, WASM_ERROR_COMPILE_FAILED)
               ELSE LdReturn(s1, l, 0)
      [] l.pc = "ld_err" ->
            \* wasm_error_code = ...; return -1
            LdReturn([s EXCEPT !.error_code = l.code], l, -1)

\* The positions at which load_wasm_module calls the runtime.
LoadM3Steps ==
    {"ld_new_env", "ld_new_runtime", "ld_parse", "ld_load", "ld_compile"}

\* load_wasm_module() run to its return (or to a fault) in one piece, as the
\* transport context calls it; outcomes gives the runtime's answer at each
\* position.
RECURSIVE load_wasm_module_run(_, _, _)
load_wasm_module_run(s, l, outcomes) ==
    IF l.pc \in {"ld_return", "fault"}
    THEN [s |-> s, ret |-> l.ret, fault |-> l.pc = "fault"]
    ELSE LET n == load_wasm_module_step(s, l, IF l.pc \in LoadM3Steps
                                              THEN outcomes[l.pc] ELSE "ok")
         IN load_wasm_module_run(n.s, n.l, outcomes)

load_wasm_module(s, outcomes) == load_wasm_module_run(s, LoadEntry, outcomes)

(***************************************************************************)
(* execute_wasm_function_internal, one step per access to the statics or   *)
(* to the runtime.  l.msg is the work message; l.code, l.ret,              *)
(* l.result_value and l.elapsed are its locals.  o is what the runtime and *)
(* the clock answer: [r, ret_count, results, ret_val, elapsed].            *)
(***************************************************************************)
ExGoto(s, l, pc) == [s |-> s, l |-> [l EXCEPT !.pc = pc]]
ExReject(s, l, code) ==
    [s |-> s, l |-> [l EXCEPT !.pc = "ex_rej_status", !.code = code, !.ret = -1]]
ExReturn(s, l) == [s |-> s, l |-> [l EXCEPT !.pc = "ex_return"]]

execute_wasm_function_internal_step(s, l, o) ==
    CASE l.pc = "ex_find" ->
            \* m3_FindFunction(&function, wasm_runtime, function_name)
            LET e == Eff(o.r, s.runtime = NULL)
                s1 == M3Call(s, "m3_FindFunction")
            IN IF e = "fault" THEN Fault(s1, l)
               ELSE IF e # "ok" THEN ExReject(s1, l, WASM_ERROR_FUNCTION_NOT_FOUND)
               ELSE ExGoto(s1, l, "ex_call")
      [] l.pc = "ex_call" ->
            IF l.msg.arg_count > 4
            THEN ExReject(s, l, WASM_ERROR_INVALID_PARAMS)
            ELSE LET e == Eff(o.r, FALSE)
                     s1 == M3Call(s, IF l.msg.arg_count = 0 THEN "m3_CallV"
                                     ELSE "m3_Call")
                     \* m3_GetRetCount, m3_GetResults
                     value == IF o.ret_count > 0 /\ o.results = "ok"
                              THEN o.ret_val ELSE 0
                 IN IF e = "ok"
                    THEN ExGoto(s1, [l EXCEPT !.ret = 0, !.result_value = value,
                                              !.elapsed = o.elapsed], "ex_w_value")
                    ELSE ExGoto(s1, [l EXCEPT !.ret = -1, !.result_value = 0,
                                              !.elapsed = o.elapsed], "ex_w_value")
      [] l.pc = "ex_rej_status" ->
            ExGoto([s EXCEPT !.last_result.status = WASM_STATUS_ERROR], l, "ex_rej_code")
      [] l.pc = "ex_rej_code" ->
            ExGoto([s EXCEPT !.last_result.error_code = l.code], l, "ex_rej_valid")
      [] l.pc = "ex_rej_valid" ->
            ExGoto([s EXCEPT !.last_result_valid = TRUE], l, "ex_rej_wstatus")
      [] l.pc = "ex_rej_wstatus" ->
            ExReturn([s EXCEPT !.status = WASM_STATUS_LOADED], l)
      [] l.pc = "ex_w_value" ->
            ExGoto([s EXCEPT !.last_result.return_value = l.result_value], l, "ex_w_time")
      [] l.pc = "ex_w_time" ->
            \* (end_time - start_time) * 1000
            ExGoto([s EXCEPT !.last_result.execution_time_us = l.elapsed * 1000],
                   l, IF l.ret = 0 THEN "ex_ok_status" ELSE "ex_fail_status")
      [] l.pc = "ex_ok_status" ->
            ExGoto([s EXCEPT !.last_result.status = WASM_STATUS_COMPLETE], l, "ex_ok_code")
      [] l.pc = "ex_ok_code" ->
            ExGoto([s EXCEPT !.last_result.error_code = WASM_ERROR_NONE], l, "ex_ok_wstatus")
      [] l.pc = "ex_ok_wstatus" ->
            ExGoto([s EXCEPT !.status = WASM_STATUS_LOADED], l, "ex_valid")
      [] l.pc = "ex_fail_status" ->
            ExGoto([s EXCEPT !.last_result.status = WASM_STATUS_ERROR], l, "ex_fail_code")
      [] l.pc = "ex_fail_code" ->
            ExGoto([s EXCEPT !.error_code = WASM_ERROR_EXECUTION_FAILED], l, "ex_fail_wstatus")
      [] l.pc = "ex_fail_wstatus" ->
            ExGoto([s EXCEPT !.status = WASM_STATUS_LOADED], l, "ex_valid")
      [] l.pc = "ex_valid" ->
            ExReturn([s EXCEPT !.last_result_valid = TRUE], l)

(***************************************************************************)
(* reset_wasm_service_internal, one step per statement.  l.k is the next   *)
(* statement of reset_upload_state.                                        *)
(***************************************************************************)
RsGoto(s, l, pc) == [s |-> s, l |-> [l EXCEPT !.pc = pc]]

\* A reset that frees whether or not there is a handle.
HandleOrNull(h) == TRUE

\* if (wasm_module), if (wasm_runtime), if (wasm_env)
HandlePresent(h) == h # NULL

reset_wasm_service_internal_step(s, l) ==
    CASE l.pc = "rs_upload_state" ->
            [s |-> reset_upload_state_stmt(s, l.k),
             l |-> IF l.k < RESET_UPLOAD_STATE_STMTS THEN [l EXCEPT !.k = @ + 1]
                   ELSE [l EXCEPT !.k = 1, !.pc = "rs_free_module"]]
      [] l.pc = "rs_free_module" ->
            \* if (wasm_module) { m3_FreeModule(wasm_module); wasm_module = NULL; }
            RsGoto(IF HandlePresent(s.module)
                   THEN [M3Call(s, "m3_FreeModule") EXCEPT !.module = NULL] ELSE s,
                   l, "rs_free_runtime")
      [] l.pc = "rs_free_runtime" ->
            RsGoto(IF HandlePresent(s.runtime)
                   THEN [M3Call(s, "m3_FreeRuntime") EXCEPT !.runtime = NULL] ELSE s,
                   l, "rs_free_env")
      [] l.pc = "rs_free_env" ->
            RsGoto(IF HandlePresent(s.env)
                   THEN [M3Call(s, "m3_FreeEnvironment") EXCEPT !.env = NULL] ELSE s,
                   l, "rs_initialized")
      [] l.pc = "rs_initialized" ->
            RsGoto([s EXCEPT !.runtime_initialized = FALSE], l, "rs_status")
      [] l.pc = "rs_status" ->
            RsGoto([s EXCEPT !.status = WASM_STATUS_IDLE], l, "rs_error_code")
      [] l.pc = "rs_error_code" ->
            RsGoto([s EXCEPT !.error_code = WASM_ERROR_NONE], l, "rs_valid")
      [] l.pc = "rs_valid" ->
            RsGoto([s EXCEPT !.last_result_valid = FALSE], l, "rs_return")

(***************************************************************************)
(* wasm_work_thread_entry: the work message in hand is l.msg.              *)
(***************************************************************************)
LoadPcs == {"ld_size", "ld_ensure", "ld_new_env", "ld_new_runtime", "ld_free_env",
            "ld_set_init", "ld_magic", "ld_env_check", "ld_parse", "ld_load",
            "ld_compile", "ld_err"}
ExecPcs == {"ex_find", "ex_call", "ex_rej_status", "ex_rej_code", "ex_rej_valid",
            "ex_rej_wstatus", "ex_w_value", "ex_w_time", "ex_ok_status",
            "ex_ok_code", "ex_ok_wstatus", "ex_fail_status", "ex_fail_code",
            "ex_fail_wstatus", "ex_valid"}
ResetPcs == {"rs_upload_state", "rs_free_module", "rs_free_runtime", "rs_free_env",
             "rs_initialized", "rs_status", "rs_error_code", "rs_valid"}

\* The thread's locals while it is blocked in k_msgq_get.
NoMsg == [type |-> "none"]

WorkerIdle ==
    [pc |-> "wait", msg |-> NoMsg, code |-> 0, ret |-> 0, result_value |-> 0,
     elapsed |-> 0, k |-> 1, m3_calls |-> <<>>]

ThWait(s, l) == [s |-> [s EXCEPT !.m3_calls = <<>>], l |-> WorkerIdle]

\* switch (msg.type)
ThSwitch(msg) ==
    [WorkerIdle EXCEPT
        !.msg = msg,
        !.pc = CASE msg.type = WASM_MSG_LOAD_MODULE -> "ld_size"
                 [] msg.type = WASM_MSG_EXECUTE_FUNCTION -> "ex_find"
                 [] msg.type = WASM_MSG_RESET -> "rs_upload_state"]

\* A thread that serves the newest message first.
wasm_work_thread_get_newest(queue) == ThSwitch(queue[Len(queue)])

\* k_msgq_get(&wasm_work_queue, &msg, K_FOREVER) == 0, then switch (msg.type)
wasm_work_thread_get(queue) == ThSwitch(Head(queue))

wasm_work_thread_step(s, l, o) ==
    CASE l.pc \in LoadPcs ->
            LET n == load_wasm_module_step(s, l, o.r) IN
            IF n.l.pc # "ld_return" THEN n
            ELSE [s |-> n.s,
                  l |-> [n.l EXCEPT !.pc = IF n.l.ret = 0 THEN "th_loaded_status"
                                           ELSE "th_error_status"]]
      [] l.pc = "th_loaded_status" ->
            [s |-> [s EXCEPT !.status = WASM_STATUS_LOADED],
             l |-> [l EXCEPT !.pc = "th_loaded_code"]]
      [] l.pc = "th_loaded_code" ->
            \* notify_status_change() only reads the statics
            ThWait([s EXCEPT !.error_code = WASM_ERROR_NONE], l)
      [] l.pc = "th_error_status" ->
            ThWait([s EXCEPT !.status = WASM_STATUS_ERROR], l)
      [] l.pc \in ExecPcs ->
            LET n == execute_wasm_function_internal_step(s, l, o) IN
            IF n.l.pc = "ex_return" THEN ThWait(n.s, n.l) ELSE n
      [] l.pc \in ResetPcs ->
            LET n == reset_wasm_service_internal_step(s, l) IN
            IF n.l.pc = "rs_return" THEN ThWait(n.s, n.l) ELSE n

\* reset_wasm_service_internal from its first statement to its return, with
\* nothing else running in between; s.m3_calls collects the frees.
RECURSIVE reset_wasm_service_internal_run(_, _)
reset_wasm_service_internal_run(s, l) ==
    IF l.pc = "rs_return" THEN s
    ELSE LET n == reset_wasm_service_internal_step(s, l)
         IN reset_wasm_service_internal_run(n.s, n.l)

reset_wasm_service_internal(s) ==
    reset_wasm_service_internal_run(s, ThSwitch(ResetMsg))

(***************************************************************************)
(* wasm_upload_handler behind BLE_WRITE_WRAPPER_VARIABLE.                  *)
(* A write is [len, cmd, sequence, chunk_size, total_size, data]: data are *)
(* the len - 8 bytes delivered behind the header.                          *)
(***************************************************************************)
Out(s, ret, branch) == [s |-> s, ret |-> ret, branch |-> branch, fault |-> FALSE]

\* The chunk_size bytes memcpy reads from packet->data: the delivered bytes,
\* then whatever lies behind the end of the write (beyond).
ChunkBytes(p, beyond) ==
    IF p.chunk_size <= Len(p.data) THEN SubSeq(p.data, 1, p.chunk_size)
    ELSE p.data \o beyond

\* variant: the bound is off by one
StartTooLargeOffByOne(p) == p.total_size > WASM_CODE_BUFFER_SIZE + 1

StartTooLarge(p) == p.total_size > WASM_CODE_BUFFER_SIZE

\* variant: the session is opened without reset_upload_state()
StartTransferWithoutReset(s, p) ==
    [s EXCEPT !.total_expected = p.total_size,
              !.status = WASM_STATUS_RECEIVING,
              !.upload_sequence = 0]

\* reset_upload_state(); wasm_total_expected = ...; wasm_status = ...;
\* wasm_upload_sequence = 0
StartTransfer(s, p) ==
    [reset_upload_state(s) EXCEPT !.total_expected = p.total_size,
                                  !.status = WASM_STATUS_RECEIVING,
                                  !.upload_sequence = 0]

\* variant: only a sequence number ahead of the expected one is refused
SequenceMismatchAhead(s, p) == p.sequence > s.upload_sequence

\* variant: a session in Error takes chunks too
NotReceivingNorError(s) ==
    s.status \notin {WASM_STATUS_RECEIVING, WASM_STATUS_ERROR}

\* if (wasm_status != WASM_STATUS_RECEIVING)
NotReceiving(s) == s.status # WASM_STATUS_RECEIVING

SequenceMismatch(s, p) == p.sequence # s.upload_sequence

\* variant: only the buffer size bounds a chunk
ChunkOverflowBufferOnly(s, p) ==
    s.bytes_received + p.chunk_size > WASM_CODE_BUFFER_SIZE

\* The sum is a uint32_t; wasm_bytes_received never exceeds the buffer size
\* and chunk_size is a uint16_t, so it does not wrap.
ChunkOverflow(s, p) ==
    \/ s.bytes_received + p.chunk_size > WASM_CODE_BUFFER_SIZE
    \/ s.bytes_received + p.chunk_size > s.total_expected

\* wasm_upload_sequence++ on a uint8_t
NextSequence(seq) == (seq + 1) % (2 ^ 8)

\* variant: the upload counts as complete only beyond the expected size
UploadCompleteBeyond(s) == s.bytes_received > s.total_expected

UploadComplete(s) == s.bytes_received >= s.total_expected

\* variant: the completed upload is reported queued, but no item is put
QueueModuleLoadLost(s, len) == Out(s, len, "complete_queued")

\* queueing the module load once the upload is complete
QueueModuleLoad(s, len) ==
    IF MsgqHasRoom(s.work_queue)
    THEN Out([s EXCEPT !.work_queue = k_msgq_put(@, LoadMsg)], len, "complete_queued")
    ELSE Out([s EXCEPT !.status = WASM_STATUS_ERROR,
                       !.error_code = WASM_ERROR_LOAD_FAILED], len, "complete_queue_full")

\* case WASM_CMD_CONTINUE_UPLOAD, also the tail of WASM_CMD_START_UPLOAD
upload_continue(s, p, bytes) ==
    IF NotReceiving(s)
    THEN Out([s EXCEPT !.error_code = WASM_ERROR_INVALID_PARAMS], -1, "not_receiving")
    ELSE IF SequenceMismatch(s, p)
    THEN Out([s EXCEPT !.error_code = WASM_ERROR_INVALID_PARAMS,
                       !.status = WASM_STATUS_ERROR], -1, "sequence_mismatch")
    ELSE IF ChunkOverflow(s, p)
    THEN Out([s EXCEPT !.error_code = WASM_ERROR_BUFFER_OVERFLOW,
                       !.status = WASM_STATUS_ERROR], -1, "chunk_overflow")
    ELSE LET s1 == [s EXCEPT
                      !.code_buffer = Memcpy(@, s.bytes_received, bytes),
                      !.bytes_received = @ + p.chunk_size,
                      !.upload_sequence = NextSequence(@)]
         IN IF UploadComplete(s1)
            THEN QueueModuleLoad([s1 EXCEPT !.code_size = s1.bytes_received,
                                            !.status = WASM_STATUS_RECEIVED], p.len)
            ELSE Out(s1, p.len, "chunk_accepted")

\* case WASM_CMD_START_UPLOAD
upload_start(s, p, bytes) ==
    IF StartTooLarge(p)
    THEN Out([s EXCEPT !.error_code = WASM_ERROR_BUFFER_OVERFLOW,
                       !.status = WASM_STATUS_ERROR], -1, "start_too_large")
    ELSE LET r == upload_continue(StartTransfer(s, p), p, bytes)
         IN [r EXCEPT !.branch = "start_" \o @]

\* case WASM_CMD_END_UPLOAD
\* An End that is honoured after a rejected chunk as well.
EndAllowedOrError(s) == s.status \in {WASM_STATUS_RECEIVING, WASM_STATUS_ERROR}

\* case WASM_CMD_END_UPLOAD: if (wasm_status == WASM_STATUS_RECEIVING)
EndAllowed(s) == s.status = WASM_STATUS_RECEIVING

upload_end(s, p, outcomes) ==
    IF EndAllowed(s)
    THEN LET r == load_wasm_module([s EXCEPT !.code_size = s.bytes_received,
                                             !.status = WASM_STATUS_RECEIVED],
                                   outcomes)
         IN [s |-> r.s, ret |-> p.len, fault |-> r.fault,
             branch |-> IF r.ret = 0 THEN "end_loaded" ELSE "end_load_failed"]
    ELSE Out(s, p.len, "end_ignored")

\* reset_wasm_service: queue the reset to the worker thread
reset_wasm_service(s) == [s EXCEPT !.work_queue = k_msgq_put(@, ResetMsg)]

wasm_upload_handler(s, p, beyond, outcomes) ==
    CASE p.len < UPLOAD_MIN_LEN -> Out(s, -1, "too_small")
      [] p.cmd = WASM_CMD_START_UPLOAD -> upload_start(s, p, ChunkBytes(p, beyond))
      [] p.cmd = WASM_CMD_CONTINUE_UPLOAD -> upload_continue(s, p, ChunkBytes(p, beyond))
      [] p.cmd = WASM_CMD_END_UPLOAD -> upload_end(s, p, outcomes)
      [] p.cmd = WASM_CMD_RESET ->
            Out(reset_wasm_service(s), SIZEOF_UPLOAD_PACKET,
                IF MsgqHasRoom(s.work_queue) THEN "reset_queued" ELSE "reset_dropped")
      [] OTHER ->
            Out([s EXCEPT !.error_code = WASM_ERROR_INVALID_PARAMS], -1, "unknown_cmd")

\* BT_GATT_ERR(BT_ATT_ERR_INVALID_ATTRIBUTE_LEN)
BT_GATT_ERR_INVALID_ATTRIBUTE_LEN == -13

wasm_upload_handler_ble(s, p, beyond, outcomes) ==
    IF p.len < UPLOAD_MIN_LEN THEN Out(s, BT_GATT_ERR_INVALID_ATTRIBUTE_LEN, "too_small")
    ELSE IF p.len > UPLOAD_MAX_LEN
    THEN Out(s, BT_GATT_ERR_INVALID_ATTRIBUTE_LEN, "too_large")
    ELSE wasm_upload_handler(s, p, beyond, outcomes)

(***************************************************************************)
(* wasm_execute_handler behind BLE_WRITE_WRAPPER.  A write is              *)
(* [len, function_name, arg_count, args]; function_name holds the 32       *)
(* characters of the field as numbers, 0 the terminator.                   *)
(***************************************************************************)
\* strnlen(chars, maxlen)
strnlen(chars, maxlen) ==
    LET n == Min(maxlen, Len(chars))
        nul == {i \in 1..n : chars[i] = 0}
    IN IF nul = {} THEN n
       ELSE (CHOOSE i \in nul : \A j \in nul : i <= j) - 1

\* strncpy(dst, src, n - 1); dst[n - 1] = '\0': the string left in dst
strncpy(chars, n) == SubSeq(chars, 1, strnlen(chars, n - 1))

ExecMsg(p) ==
    [type |-> WASM_MSG_EXECUTE_FUNCTION,
     function_name |-> strncpy(p.function_name, WASM_FUNCTION_NAME_SIZE),
     arg_count |-> p.arg_count,
     args |-> [i \in 1..4 |-> IF i - 1 < p.arg_count THEN p.args[i] ELSE 0]]

ExecResult(status, error_code) ==
    [ZeroResult EXCEPT !.status = status, !.error_code = error_code]

\* A test that takes an upload in progress for a loaded module.
WasmReadyOrReceiving(s) ==
    s.status \in {WASM_STATUS_LOADED, WASM_STATUS_RECEIVING}

\* Check if WASM is ready: wasm_status != WASM_STATUS_LOADED is the refusal
WasmReady(s) == s.status = WASM_STATUS_LOADED

\* wasm_execute_handler up to and including k_msgq_put; queued says that the
\* message went into the queue and wasm_status = WASM_STATUS_EXECUTING is
\* the statement still to run.
wasm_execute_handler(s, p) ==
    LET s0 == [s EXCEPT !.last_result = ZeroResult, !.last_result_valid = FALSE] IN
    IF ~WasmReady(s0)
    THEN [s |-> [s0 EXCEPT
                    !.last_result = ExecResult(WASM_STATUS_ERROR, WASM_ERROR_LOAD_FAILED),
                    !.last_result_valid = TRUE],
          queued |-> FALSE, branch |-> "execute_not_loaded"]
    ELSE IF strnlen(p.function_name, WASM_FUNCTION_NAME_SIZE) >= WASM_FUNCTION_NAME_SIZE
    THEN [s |-> [s0 EXCEPT
                    !.last_result = ExecResult(WASM_STATUS_ERROR, WASM_ERROR_INVALID_PARAMS),
                    !.last_result_valid = TRUE],
          queued |-> FALSE, branch |-> "execute_name_too_long"]
    ELSE IF MsgqHasRoom(s0.work_queue)
    THEN [s |-> [s0 EXCEPT !.work_queue = k_msgq_put(@, ExecMsg(p))],
          queued |-> TRUE, branch |-> "execute_put"]
    ELSE [s |-> [s0 EXCEPT
                    !.status = WASM_STATUS_ERROR,
                    !.error_code = WASM_ERROR_EXECUTION_FAILED,
                    !.last_result = ExecResult(WASM_STATUS_ERROR,
                                               WASM_ERROR_EXECUTION_FAILED),
                    !.last_result_valid = TRUE],
          queued |-> FALSE, branch |-> "execute_queue_full"]

\* the statement after a successful k_msgq_put
wasm_execute_handler_queued(s) == [s EXCEPT !.status = WASM_STATUS_EXECUTING]

wasm_execute_handler_ble(s, p) ==
    IF p.len < SIZEOF_EXECUTE_PACKET
    THEN [s |-> s, queued |-> FALSE, branch |-> "execute_too_small"]
    ELSE wasm_execute_handler(s, p)

(***************************************************************************)
(* wasm_status_handler and wasm_result_handler behind BLE_READ_WRAPPER:    *)
(* the handler fills the response, the wrapper hands it to                 *)
(* bt_gatt_attr_read.  Neither writes a static.                            *)
(***************************************************************************)
\* uptime is k_uptime_get() / 1000; bytes_received is a uint16_t field
wasm_status_handler(s, uptime) ==
    [ret |-> SIZEOF_STATUS_PACKET,
     response |-> [status |-> s.status,
                   error_code |-> s.error_code,
                   bytes_received |-> s.bytes_received % 65536,
                   total_size |-> s.total_expected,
                   uptime |-> uptime]]

wasm_result_handler(s) ==
    [ret |-> SIZEOF_RESULT_PACKET,
     response |-> IF s.last_result_valid THEN s.last_result
                  ELSE [ZeroResult EXCEPT !.status = WASM_STATUS_IDLE,
                                          !.error_code = WASM_ERROR_NONE]]

\* if (result < 0) return result; return bt_gatt_attr_read(...)
ble_read_wrapper(r) == IF r.ret < 0 THEN [r EXCEPT !.response = <<>>] ELSE r

wasm_status_handler_ble(s, uptime) == ble_read_wrapper(wasm_status_handler(s, uptime))
wasm_result_handler_ble(s) == ble_read_wrapper(wasm_result_handler(s))

(***************************************************************************)
(* wasm_service_init                                                       *)
(***************************************************************************)
\* The statics as the C initialisers leave them.
StaticInit ==
    [code_buffer |-> ZeroBuffer, code_size |-> 0, bytes_received |-> 0,
     total_expected |-> 0, upload_sequence |-> 0, status |-> WASM_STATUS_IDLE,
     error_code |-> WASM_ERROR_NONE, env |-> NULL, runtime |-> NULL,
     module |-> NULL, runtime_initialized |-> FALSE, last_result |-> ZeroResult,
     last_result_valid |-> FALSE, work_queue |-> <<>>, m3_calls |-> <<>>]

wasm_service_init(s) == [reset_upload_state(s) EXCEPT !.runtime_initialized = FALSE]

(***************************************************************************)
(* The writes a client sends.                                              *)
(***************************************************************************)
UploadPacket(cmd, sequence, total_size, chunk_size, data) ==
    [len |-> 8 + Len(data), cmd |-> cmd, sequence |-> sequence,
     chunk_size |-> chunk_size, total_size |-> total_size, data |-> data]

Start(sequence, total_size, data) ==
    UploadPacket(WASM_CMD_START_UPLOAD, sequence, total_size, Len(data), data)
Continue(sequence, data) ==
    UploadPacket(WASM_CMD_CONTINUE_UPLOAD, sequence, 0, Len(data), data)

\* "\0asm"
Magic == <<0, 97, 115, 109>>

StartPackets ==
    {Start(0, 4, Magic), Start(0, 4, <<0, 97>>), Start(0, 4, <<1, 2, 3, 4>>),
     Start(1, 4, <<>>), Start(0, 0, <<>>), Start(0, 2, Magic),
     Start(0, WASM_CODE_BUFFER_SIZE, <<>>),
     Start(0, WASM_CODE_BUFFER_SIZE + 1, <<0, 97>>)}

ContinuePackets ==
    {Continue(1, <<115, 109>>), Continue(0, <<115, 109>>), Continue(1, <<1, 2, 3>>),
     Continue(1, <<>>),
     \* chunk_size tells more bytes than the write delivered
     UploadPacket(WASM_CMD_CONTINUE_UPLOAD, 1, 0, 40000, <<>>),
     UploadPacket(WASM_CMD_CONTINUE_UPLOAD, 1, 0, 2, <<115>>)}

OtherPackets ==
    {UploadPacket(WASM_CMD_END_UPLOAD, 0, 0, 0, <<>>),
     UploadPacket(WASM_CMD_RESET, 0, 0, 0, <<>>),
     UploadPacket(9, 0, 0, 0, <<>>),
     [UploadPacket(WASM_CMD_CONTINUE_UPLOAD, 1, 0, 0, <<>>) EXCEPT !.len = 7],
     [UploadPacket(WASM_CMD_CONTINUE_UPLOAD, 1, 0, 0, <<>>) EXCEPT !.len = 253]}

UploadPackets == StartPackets \cup ContinuePackets \cup OtherPackets

\* What memcpy finds behind the end of a write that is shorter than its
\* chunk_size tells: any bytes.
StrayBytes == {0, 255}
BeyondBytes(p) ==
    IF p.chunk_size <= Len(p.data) \/ p.chunk_size - Len(p.data) > 2 THEN {<<>>}
    ELSE [1..(p.chunk_size - Len(p.data)) -> StrayBytes]

\* The runtime's answers to a load_wasm_module() run by the upload handler:
\* every operation succeeds, or the one at position pc is the first not to.
LoadOutcomes(p) ==
    IF p.cmd # WASM_CMD_END_UPLOAD THEN {[pc \in LoadM3Steps |-> "ok"]}
    ELSE {[pc \in LoadM3Steps |-> "ok"]} \cup
         {[pc \in LoadM3Steps |-> IF pc = at THEN o ELSE "ok"] :
             at \in LoadM3Steps, o \in M3Any \ {"ok"}}

NameField(chars) ==
    [i \in 1..WASM_FUNCTION_NAME_SIZE |-> IF i <= Len(chars) THEN chars[i] ELSE 0]

ExecutePacket(len, chars, arg_count) ==
    [len |-> len, function_name |-> NameField(chars), arg_count |-> arg_count,
     args |-> <<3, 4, 5, 6>>]

ExecutePackets ==
    {ExecutePacket(SIZEOF_EXECUTE_PACKET, <<97, 100, 100>>, 2),
     ExecutePacket(SIZEOF_EXECUTE_PACKET, <<97, 100, 100>>, 0),
     ExecutePacket(SIZEOF_EXECUTE_PACKET, <<97, 100, 100>>, 5),
     ExecutePacket(SIZEOF_EXECUTE_PACKET, [i \in 1..WASM_FUNCTION_NAME_SIZE |-> 97], 0),
     ExecutePacket(SIZEOF_EXECUTE_PACKET - 1, <<97, 100, 100>>, 0)}

\* What the runtime and the clock answer to the worker thread at l.pc.
RetVals == {42}
ElapsedMs == {2}
WorkerOutcomes(l) ==
    IF l.pc = "ex_call"
    THEN [r : M3Outcomes, ret_count : {0, 1}, results : M3Outcomes,
          ret_val : RetVals, elapsed : ElapsedMs]
    ELSE IF l.pc \in LoadM3Steps \cup {"ex_find"}
    THEN [r : M3Any, ret_count : {0}, results : {"ok"}, ret_val : {0}, elapsed : {0}]
    ELSE [r : {"ok"}, ret_count : {0}, results : {"ok"}, ret_val : {0}, elapsed : {0}]

(***************************************************************************)
(* wasm_service_validate_magic: the public form of validate_wasm_magic     *)
(***************************************************************************)
wasm_service_validate_magic(data, size) == validate_wasm_magic(data, size)

(***************************************************************************)
(* sprite_service.h                                                        *)
(***************************************************************************)
SPRITE_DATA_SIZE == 32
SPRITE_MAX_COUNT == 256
SPRITE_ID_INVALID == 65535

SPRITE_STATUS_SUCCESS == 0
SPRITE_STATUS_NOT_FOUND == 1
SPRITE_STATUS_CRC_ERROR == 2
SPRITE_STATUS_REGISTRY_FULL == 3

REGISTRY_STATUS_READY == 0
REGISTRY_STATUS_BUSY == 1
REGISTRY_STATUS_ERROR == 2

OPERATION_NONE == 0
OPERATION_UPLOAD == 1
OPERATION_DOWNLOAD == 2
OPERATION_VERIFY == 3

VERIFY_STATUS_VALID == 0
VERIFY_STATUS_INVALID == 1
VERIFY_STATUS_NOT_FOUND == 2

SIZEOF_SPRITE_UPLOAD_PACKET == 2 + SPRITE_DATA_SIZE + 2
SIZEOF_SPRITE_REQUEST == 2
SIZEOF_SPRITE_DOWNLOAD_PACKET == 2 + SPRITE_DATA_SIZE + 2 + 1
SIZEOF_SPRITE_REGISTRY_STATUS == 12
SIZEOF_SPRITE_VERIFY_RESPONSE == 8

\* BT_GATT_ERR(BT_ATT_ERR_UNLIKELY)
BT_GATT_ERR_UNLIKELY == -14

(***************************************************************************)
(* sprite_service_calculate_crc16                                          *)
(***************************************************************************)
\* The value a uint16_t holds after an assignment.
UInt16(x) == x % 65536

\* The operator ^ on two bits, on two hexadecimal digits and on two
\* non-negative integers.
XorBit(a, b) == (a + b) % 2

XorDigit ==
    [a \in 0..15 |-> [b \in 0..15 |->
        XorBit(a % 2, b % 2)
        + 2 * XorBit((a \div 2) % 2, (b \div 2) % 2)
        + 4 * XorBit((a \div 4) % 2, (b \div 4) % 2)
        + 8 * XorBit(a \div 8, b \div 8)]]

RECURSIVE Xor(_, _)
Xor(a, b) ==
    IF a = 0 THEN b
    ELSE IF b = 0 THEN a
    ELSE XorDigit[a % 16][b % 16] + 16 * Xor(a \div 16, b \div 16)

\* The initial value and the polynomial of the checksum.
CRC16_INITIAL == 65535
CRC16_POLYNOMIAL == 4129

\* Eight shifts that never apply the polynomial.
RECURSIVE crc16_shift_only(_, _)
crc16_shift_only(crc, bit) ==
    IF bit >= 8 THEN crc ELSE crc16_shift_only(UInt16(crc * 2), bit + 1)

\* The inner loop: for (bit = 0; bit < 8; bit++)
RECURSIVE crc16_bits(_, _)
crc16_bits(crc, bit) ==
    IF bit >= 8 THEN crc
    ELSE IF (crc \div 32768) % 2 = 1
         THEN crc16_bits(UInt16(Xor(crc * 2, CRC16_POLYNOMIAL)), bit + 1)
         ELSE crc16_bits(UInt16(crc * 2), bit + 1)

\* The outer loop, for (i = 0; i < length; i++), on its locals i and crc
RECURSIVE crc16_bytes(_, _, _)
crc16_bytes(data, length, l) ==
    IF l.i >= length THEN l.crc
    ELSE crc16_bytes(data, length,
                     [i |-> l.i + 1,
                      crc |-> crc16_bits(UInt16(Xor(l.crc,
                                                    UInt16(ByteAt(data, l.i) * 256))),
                                         0)])

sprite_service_calculate_crc16(data, length) ==
    crc16_bytes(data, length, [i |-> 0, crc |-> CRC16_INITIAL])

(***************************************************************************)
(* sprite_service.c: the registry                                          *)
(***************************************************************************)
ZeroBitmap == [i \in 1..SPRITE_DATA_SIZE |-> 0]

\* A slot after memset(sprite_registry, 0, sizeof(sprite_registry)).
ZeroSlot == [sprite_id |-> 0, bitmap_data |-> ZeroBitmap, crc16 |-> 0,
             is_valid |-> FALSE]

\* The statics of the file as one record. sprite_registry holds the slots
\* up to the last one that is not zeroed; slot i of the source is
\* SlotAt(sp, i), and a slot pointer is i + 1 (NULL is 0).
sprite_service_init ==
    [sprite_registry |-> <<>>,
     sprite_count |-> 0,
     crc_error_count |-> 0,
     registry_status |-> REGISTRY_STATUS_READY,
     last_operation |-> OPERATION_NONE,
     last_sprite_id |-> SPRITE_ID_INVALID]

SlotAt(sp, i) ==
    IF i < Len(sp.sprite_registry) THEN sp.sprite_registry[i + 1] ELSE ZeroSlot

\* The registry with the slot a pointer names replaced.
SetSlot(sp, slot, value) ==
    [i \in 1..Max(Len(sp.sprite_registry), slot) |->
        IF i = slot THEN value ELSE SlotAt(sp, i - 1)]

\* The slot a loop for (i = 0; i < SPRITE_MAX_COUNT; i++) returns at the
\* first index of the given ones, or NULL when it runs to its end.
FirstSlot(indices) ==
    IF indices = {} THEN NULL
    ELSE (CHOOSE i \in indices : \A j \in indices : i <= j) + 1

\* The first valid slot, whatever id it holds.
find_valid_slot(sp, sprite_id) ==
    FirstSlot({i \in 0..(SPRITE_MAX_COUNT - 1) : SlotAt(sp, i).is_valid})

find_sprite_slot(sp, sprite_id) ==
    FirstSlot({i \in 0..(SPRITE_MAX_COUNT - 1) :
                  SlotAt(sp, i).is_valid /\ SlotAt(sp, i).sprite_id = sprite_id})

\* The free slot of lowest index, and the last slot when none is free.
find_free_or_last_slot(sp) ==
    FirstSlot({i \in 0..(SPRITE_MAX_COUNT - 1) :
                  ~SlotAt(sp, i).is_valid \/ i = SPRITE_MAX_COUNT - 1})

find_free_slot(sp) ==
    FirstSlot({i \in 0..(SPRITE_MAX_COUNT - 1) : ~SlotAt(sp, i).is_valid})

\* A test that lets every checksum pass.
CrcNeverMismatch(calculated_crc, crc16) == FALSE

\* The checksum test of store_sprite.
CrcMismatch(calculated_crc, crc16) == calculated_crc # crc16

\* A free slot, whether the sprite has one of its own or not.
SlotFreeOnly(sp, sprite_id) == find_free_slot(sp)

\* The slot store_sprite writes: the sprite's own, or else a free one.
SlotFor(sp, sprite_id) ==
    IF find_sprite_slot(sp, sprite_id) # NULL THEN find_sprite_slot(sp, sprite_id)
    ELSE find_free_slot(sp)

store_sprite(sp, sprite_id, bitmap_data, crc16) ==
    LET calculated_crc == sprite_service_calculate_crc16(bitmap_data, SPRITE_DATA_SIZE)
        is_update == find_sprite_slot(sp, sprite_id) # NULL
        slot == SlotFor(sp, sprite_id)
    IN IF CrcMismatch(calculated_crc, crc16)
       THEN [sp |-> [sp EXCEPT !.crc_error_count = UInt16(@ + 1)],
             status |-> SPRITE_STATUS_CRC_ERROR]
       ELSE IF slot = NULL
       THEN [sp |-> sp, status |-> SPRITE_STATUS_REGISTRY_FULL]
       ELSE [sp |-> [sp EXCEPT
                       !.sprite_registry =
                           SetSlot(sp, slot,
                                   [sprite_id |-> sprite_id,
                                    bitmap_data |-> bitmap_data,
                                    crc16 |-> crc16, is_valid |-> TRUE]),
                       !.sprite_count = IF is_update THEN @ ELSE UInt16(@ + 1),
                       !.last_sprite_id = sprite_id],
             status |-> SPRITE_STATUS_SUCCESS]

(***************************************************************************)
(* sprite_service.c: the characteristic handlers                           *)
(***************************************************************************)
sprite_upload_handler(sp, packet) ==
    LET s0 == [sp EXCEPT !.registry_status = REGISTRY_STATUS_BUSY,
                         !.last_operation = OPERATION_UPLOAD]
        r == store_sprite(s0, packet.sprite_id, packet.bitmap_data, packet.crc16)
    IN IF packet.sprite_id = SPRITE_ID_INVALID
       THEN [sp |-> [s0 EXCEPT !.registry_status = REGISTRY_STATUS_ERROR],
             status |-> "none", ret |-> BT_GATT_ERR_INVALID_ATTRIBUTE_LEN]
       ELSE IF r.status = SPRITE_STATUS_SUCCESS
       THEN [sp |-> [r.sp EXCEPT !.registry_status = REGISTRY_STATUS_READY],
             status |-> r.status, ret |-> SIZEOF_SPRITE_UPLOAD_PACKET]
       ELSE [sp |-> [r.sp EXCEPT !.registry_status = REGISTRY_STATUS_ERROR],
             status |-> r.status, ret |-> BT_GATT_ERR_UNLIKELY]

sprite_download_request_handler(sp, packet) ==
    [sp |-> [sp EXCEPT !.last_operation = OPERATION_DOWNLOAD,
                       !.last_sprite_id = packet.sprite_id],
     ret |-> SIZEOF_SPRITE_REQUEST]

sprite_download_response_handler(sp) ==
    LET slot == find_sprite_slot(sp, sp.last_sprite_id) IN
    [response |->
        IF slot # NULL
        THEN [sprite_id |-> sp.last_sprite_id,
              bitmap_data |-> SlotAt(sp, slot - 1).bitmap_data,
              crc16 |-> SlotAt(sp, slot - 1).crc16,
              status |-> SPRITE_STATUS_SUCCESS]
        ELSE [sprite_id |-> sp.last_sprite_id, bitmap_data |-> ZeroBitmap,
              crc16 |-> 0, status |-> SPRITE_STATUS_NOT_FOUND],
     ret |-> SIZEOF_SPRITE_DOWNLOAD_PACKET]

sprite_registry_status_handler(sp) ==
    [response |->
        [total_sprites |-> sp.sprite_count,
         free_slots |-> UInt16(SPRITE_MAX_COUNT - sp.sprite_count),
         last_sprite_id |-> sp.last_sprite_id,
         registry_status |-> sp.registry_status,
         last_operation |-> sp.last_operation,
         crc_errors |-> sp.crc_error_count,
         reserved |-> 0],
     ret |-> SIZEOF_SPRITE_REGISTRY_STATUS]

sprite_verify_request_handler(sp, packet) ==
    [sp |-> [sp EXCEPT !.last_operation = OPERATION_VERIFY,
                       !.last_sprite_id = packet.sprite_id],
     ret |-> SIZEOF_SPRITE_REQUEST]

sprite_verify_response_handler(sp) ==
    LET slot == find_sprite_slot(sp, sp.last_sprite_id)
        calculated_crc ==
            sprite_service_calculate_crc16(SlotAt(sp, slot - 1).bitmap_data,
                                           SPRITE_DATA_SIZE)
    IN [response |->
          IF slot # NULL
          THEN [sprite_id |-> sp.last_sprite_id,
                stored_crc16 |-> SlotAt(sp, slot - 1).crc16,
                calculated_crc16 |-> calculated_crc,
                verification_status |->
                    IF calculated_crc = SlotAt(sp, slot - 1).crc16
                    THEN VERIFY_STATUS_VALID ELSE VERIFY_STATUS_INVALID,
                reserved |-> 0]
          ELSE [sprite_id |-> sp.last_sprite_id, stored_crc16 |-> 0,
                calculated_crc16 |-> 0,
                verification_status |-> VERIFY_STATUS_NOT_FOUND, reserved |-> 0],
        ret |-> SIZEOF_SPRITE_VERIFY_RESPONSE]

(***************************************************************************)
(* sprite_service.c: the public functions                                  *)
(***************************************************************************)
sprite_service_sprite_exists(sp, sprite_id) == find_sprite_slot(sp, sprite_id) # NULL

\* A clear that resets the counters and leaves the slots.
clear_counters_only(sp) ==
    [sp EXCEPT !.sprite_count = 0,
               !.last_sprite_id = SPRITE_ID_INVALID,
               !.registry_status = REGISTRY_STATUS_READY]

sprite_service_clear_registry(sp) ==
    [sp EXCEPT !.sprite_registry = <<>>,
               !.sprite_count = 0,
               !.last_sprite_id = SPRITE_ID_INVALID,
               !.registry_status = REGISTRY_STATUS_READY]

(***************************************************************************)
(* The system: the transport context delivers one write at a time and runs *)
(* its handler without being interrupted; the worker thread advances one   *)
(* statement at a time and can be preempted by a write anywhere.           *)
(***************************************************************************)
InitStatics == wasm_service_init(StaticInit)

\* No public function is being called.
AppIdle == [call |-> "none", data |-> <<>>, size |-> 0, done |-> FALSE, ret |-> 0]

\* A caller about to enter a public function with a buffer and a length.
AppCall(call, data, size, ret) ==
    [call |-> call, data |-> data, size |-> size, done |-> FALSE, ret |-> ret]

InitServices ==
    /\ wasm_code_buffer = InitStatics.code_buffer
    /\ wasm_code_size = InitStatics.code_size
    /\ wasm_bytes_received = InitStatics.bytes_received
    /\ wasm_total_expected = InitStatics.total_expected
    /\ wasm_upload_sequence = InitStatics.upload_sequence
    /\ wasm_status = InitStatics.status
    /\ wasm_error_code = InitStatics.error_code
    /\ wasm_env = InitStatics.env
    /\ wasm_runtime = InitStatics.runtime
    /\ wasm_module = InitStatics.module
    /\ wasm_runtime_initialized = InitStatics.runtime_initialized
    /\ last_result = InitStatics.last_result
    /\ last_result_valid = InitStatics.last_result_valid
    /\ wasm_work_queue = InitStatics.work_queue
    /\ worker = WorkerIdle
    /\ ble = [pc |-> "idle", last |-> "none", m3_calls |-> <<>>, writes |-> 0,
              accepted |-> 0]
    /\ sprite = sprite_service_init

Init == InitServices /\ app = AppIdle

\* A NULL handle given to the runtime has stopped the system.
Halted == worker.pc = "fault" \/ ble.pc = "fault"

AcceptBranches == {"chunk_accepted", "complete_queued", "complete_queue_full"}
StartAcceptBranches == {"start_" \o b : b \in AcceptBranches}
StartRejectBranches == {"start_sequence_mismatch", "start_chunk_overflow"}

\* The chunks accepted since the last Start that opened a transfer.
Accepted(count, branch) ==
    CASE branch \in AcceptBranches -> count + 1
      [] branch \in StartAcceptBranches -> 1
      [] branch \in StartRejectBranches -> 0
      [] OTHER -> count

\* A write to the upload characteristic: wasm_upload_handler_ble
BleUploadWrite(packets, budget) ==
    /\ ~Halted
    /\ ble.pc = "idle"
    /\ ble.writes < budget
    /\ \E p \in packets : \E beyond \in BeyondBytes(p) : \E outcomes \in LoadOutcomes(p) :
          LET r == wasm_upload_handler_ble(Statics(<<>>), p, beyond, outcomes) IN
          /\ SetStatics(r.s)
          /\ ble' = [pc |-> IF r.fault THEN "fault" ELSE "idle",
                     last |-> r.branch,
                     m3_calls |-> r.s.m3_calls,
                     writes |-> ble.writes + 1,
                     accepted |-> Accepted(ble.accepted, r.branch)]
    /\ UNCHANGED <<worker, sprite, app>>

\* A write to the execute characteristic: wasm_execute_handler_ble up to
\* its k_msgq_put
BleExecuteWrite(packets, budget) ==
    /\ ~Halted
    /\ ble.pc = "idle"
    /\ ble.writes < budget
    /\ \E p \in packets :
          LET r == wasm_execute_handler_ble(Statics(<<>>), p) IN
          /\ SetStatics(r.s)
          /\ ble' = [ble EXCEPT !.pc = IF r.queued THEN "execute_queued" ELSE "idle",
                                !.last = r.branch,
                                !.m3_calls = <<>>,
                                !.writes = @ + 1]
    /\ UNCHANGED <<worker, sprite, app>>

\* wasm_execute_handler after its k_msgq_put succeeded
BleExecuteQueued ==
    /\ ~Halted
    /\ ble.pc = "execute_queued"
    /\ SetStatics(wasm_execute_handler_queued(Statics(<<>>)))
    /\ ble' = [ble EXCEPT !.pc = "idle", !.last = "execute_queued"]
    /\ UNCHANGED <<worker, sprite, app>>

\* The seconds of uptime a status read reports.
Uptimes == {0, 1}

\* A read of the status or of the result characteristic: the handler
\* answers from the statics and changes none of them.
BleRead ==
    /\ ~Halted
    /\ ble.pc = "idle"
    /\ \E r \in {wasm_status_handler_ble(Statics(<<>>), u) : u \in Uptimes}
               \cup {wasm_result_handler_ble(Statics(<<>>))} : r.ret > 0
    /\ UNCHANGED vars

\* wasm_work_thread_entry: k_msgq_get returns a message
WorkerGet ==
    /\ ~Halted
    /\ worker.pc = "wait"
    /\ wasm_work_queue # <<>>
    /\ worker' = wasm_work_thread_get(wasm_work_queue)
    /\ wasm_work_queue' = Tail(wasm_work_queue)
    /\ UNCHANGED <<wasm_code_buffer, wasm_code_size, wasm_bytes_received,
                   wasm_total_expected, wasm_upload_sequence, wasm_status,
                   wasm_error_code, wasm_env, wasm_runtime, wasm_module,
                   wasm_runtime_initialized, last_result, last_result_valid, ble,
                   sprite, app>>

\* wasm_work_thread_entry: the next statement of the item in hand
WorkerStep ==
    /\ ~Halted
    /\ worker.pc # "wait"
    /\ \E o \in WorkerOutcomes(worker) :
          LET n == wasm_work_thread_step(Statics(worker.m3_calls), worker, o) IN
          /\ SetStatics(n.s)
          /\ worker' = [n.l EXCEPT !.m3_calls = n.s.m3_calls]
    /\ UNCHANGED <<ble, sprite, app>>

Next ==
    \/ BleUploadWrite(UploadPackets, MaxWrites)
    \/ BleExecuteWrite(ExecutePackets, MaxWrites)
    \/ BleExecuteQueued
    \/ BleRead
    \/ WorkerGet
    \/ WorkerStep

Spec == Init /\ [][Next]_vars

(***************************************************************************)
(* One long transfer: a Start, then any number of zero-length chunks.      *)
(***************************************************************************)
\* The writes of one behaviour of SpecSeq.
MaxSeqWrites == 258

\* The client opens a transfer when none is running; in a transfer it sends
\* the next chunk, numbered by the chunks accepted so far (the sequence
\* field is one byte), or sends chunk 0 once more.
SeqPackets ==
    IF wasm_status # WASM_STATUS_RECEIVING THEN {Start(0, 1, <<>>)}
    ELSE {Continue(ble.accepted % 256, <<>>), Continue(0, <<>>)}

\* No chunk completes the transfer, so the worker thread has no work.
NextSeq == BleUploadWrite(SeqPackets, MaxSeqWrites)

SpecSeq == Init /\ [][NextSeq]_vars

(***************************************************************************)
(* A client that fills the work queue: resets and complete uploads while   *)
(* the worker thread has not yet run.                                      *)
(***************************************************************************)
\* The writes of one behaviour of SpecQueue.
MaxQueueWrites == 5

QueuePackets ==
    {UploadPacket(WASM_CMD_RESET, 0, 0, 0, <<>>), Start(0, 4, Magic),
     Start(0, 4, <<0, 97>>), Continue(1, <<115, 109>>)}

NextQueue ==
    \/ BleUploadWrite(QueuePackets, MaxQueueWrites)
    \/ WorkerGet
    \/ WorkerStep

SpecQueue == Init /\ [][NextQueue]_vars

(***************************************************************************)
(* A client that ends its uploads itself (WASM_CMD_END_UPLOAD) and resets  *)
(* the service in between.                                                 *)
(***************************************************************************)
\* The writes of one behaviour of SpecEnd.
MaxEndWrites == 5

EndPackets ==
    {Start(0, 6, Magic), UploadPacket(WASM_CMD_END_UPLOAD, 0, 0, 0, <<>>),
     UploadPacket(WASM_CMD_RESET, 0, 0, 0, <<>>)}

NextEnd ==
    \/ BleUploadWrite(EndPackets, MaxEndWrites)
    \/ WorkerGet
    \/ WorkerStep

SpecEnd == Init /\ [][NextEnd]_vars

(***************************************************************************)
(* A caller of wasm_service_validate_magic.                                *)
(***************************************************************************)
\* The longest buffer a caller passes.
MaxMagicLen == 5

\* The bytes of the magic number and one other byte.
MagicBytes == {0, 97, 115, 109, 1}

\* Every buffer of these bytes, with every length up to its own.
MagicCalls ==
    {AppCall("wasm_service_validate_magic", data, size, FALSE) :
        <<data, size>> \in
            UNION {[1..n -> MagicBytes] \X (0..n) : n \in 0..MaxMagicLen}}

InitMagic == InitServices /\ app \in MagicCalls

\* The call returns.
AppValidateMagic ==
    /\ app.call = "wasm_service_validate_magic"
    /\ ~app.done
    /\ app' = [app EXCEPT !.done = TRUE,
                          !.ret = wasm_service_validate_magic(app.data, app.size)]
    /\ UNCHANGED <<statics, worker, ble, sprite>>

SpecMagic == InitMagic /\ [][AppValidateMagic]_vars

(***************************************************************************)
(* A caller of sprite_service_calculate_crc16.                             *)
(***************************************************************************)
\* The longest of the buffers drawn from CrcBytes.
MaxCrcLen == 3

CrcBytes == {0, 1, 49, 128, 255}

\* The ASCII string "123456789".
CheckString == <<49, 50, 51, 52, 53, 54, 55, 56, 57>>

\* Every short buffer with every length up to its own, the check string
\* and two bitmaps.
CrcCalls ==
    {AppCall("sprite_service_calculate_crc16", data, size, 0) :
        <<data, size>> \in
            UNION {[1..n -> CrcBytes] \X (0..n) : n \in 0..MaxCrcLen}
            \cup {<<CheckString, Len(CheckString)>>,
                  <<ZeroBitmap, SPRITE_DATA_SIZE>>,
                  <<[i \in 1..SPRITE_DATA_SIZE |-> 8 * i - 1], SPRITE_DATA_SIZE>>}}

InitCrc == InitServices /\ app \in CrcCalls

\* The call returns.
AppCalculateCrc16 ==
    /\ app.call = "sprite_service_calculate_crc16"
    /\ ~app.done
    /\ app' = [app EXCEPT !.done = TRUE,
                          !.ret = sprite_service_calculate_crc16(app.data, app.size)]
    /\ UNCHANGED <<statics, worker, ble, sprite>>

SpecCrc == InitCrc /\ [][AppCalculateCrc16]_vars

(***************************************************************************)
(* A client of the sprite service: uploads, download and verify requests,  *)
(* reads of the three response characteristics, and the application        *)
(* clearing the registry.                                                  *)
(***************************************************************************)
\* The uploads with a wrong checksum a client of SpecSprite sends.
MaxCrcErrors == 2

\* A bitmap with no byte repeated.
BitmapA == [i \in 1..SPRITE_DATA_SIZE |-> 8 * i - 1]

Bitmaps == {ZeroBitmap, BitmapA}

SpriteUpload(sprite_id, bitmap_data, crc16) ==
    [sprite_id |-> sprite_id, bitmap_data |-> bitmap_data, crc16 |-> crc16]

\* The checksum a client declares for a bitmap, and one that is off by one.
ClientCrc == [b \in Bitmaps |-> sprite_service_calculate_crc16(b, SPRITE_DATA_SIZE)]

WrongCrc(b) == UInt16(ClientCrc[b] + 1)

UploadIds == {0, 1}

GoodUploads ==
    {SpriteUpload(id, b, ClientCrc[b]) : id \in UploadIds \cup {SPRITE_ID_INVALID},
                                         b \in Bitmaps}

BadUploads == {SpriteUpload(id, b, WrongCrc(b)) : id \in UploadIds, b \in Bitmaps}

SpritePackets ==
    IF sprite.crc_error_count < MaxCrcErrors THEN GoodUploads \cup BadUploads
    ELSE GoodUploads

\* The ids a client asks for: those it uploads and one it never does.
RequestIds == UploadIds \cup {2}

SpriteRequest(sprite_id) == [sprite_id |-> sprite_id]

\* A write to the upload characteristic: sprite_upload_handler_ble
SpriteUploadWrite(packets) ==
    /\ ~Halted
    /\ ble.pc = "idle"
    /\ \E p \in packets : sprite' = sprite_upload_handler(sprite, p).sp
    /\ UNCHANGED <<statics, worker, ble, app>>

\* A write to the download request or to the verify request characteristic
SpriteRequestWrite ==
    /\ ~Halted
    /\ ble.pc = "idle"
    /\ \E id \in RequestIds :
          sprite' \in {sprite_download_request_handler(sprite, SpriteRequest(id)).sp,
                       sprite_verify_request_handler(sprite, SpriteRequest(id)).sp}
    /\ UNCHANGED <<statics, worker, ble, app>>

\* A read of the download response, of the registry status or of the
\* verify response: the handler answers from the statics and changes none.
SpriteRead ==
    /\ ~Halted
    /\ ble.pc = "idle"
    /\ \E r \in {sprite_download_response_handler(sprite),
                 sprite_registry_status_handler(sprite),
                 sprite_verify_response_handler(sprite)} : r.ret > 0
    /\ UNCHANGED vars

\* The application calls sprite_service_clear_registry.
AppClearRegistry ==
    /\ sprite' = sprite_service_clear_registry(sprite)
    /\ UNCHANGED <<statics, worker, ble, app>>

NextSprite ==
    \/ SpriteUploadWrite(SpritePackets)
    \/ SpriteRequestWrite
    \/ SpriteRead
    \/ AppClearRegistry

SpecSprite == Init /\ [][NextSprite]_vars

(***************************************************************************)
(* A client that fills the registry: it uploads a sprite under the next    *)
(* id not yet used, or sprite 0 once more.                                 *)
(***************************************************************************)
FillPackets ==
    {SpriteUpload(sprite.sprite_count, ZeroBitmap, ClientCrc[ZeroBitmap]),
     SpriteUpload(0, BitmapA, ClientCrc[BitmapA])}

NextFill == SpriteUploadWrite(FillPackets)

SpecFill == Init /\ [][NextFill]_vars

(***************************************************************************)
(* The upload handler applied to the state at hand.                        *)
(***************************************************************************)
AllOk == [pc \in LoadM3Steps |-> "ok"]

Here == Statics(<<>>)

Handled(s, p, beyond) == wasm_upload_handler_ble(s, p, beyond, AllOk)

Rejected(r) == r.ret < 0

\* received_bytes, expected_total, next_sequence and the buffer of a and b agree
SameTransfer(a, b) ==
    /\ a.bytes_received = b.bytes_received
    /\ a.total_expected = b.total_expected
    /\ a.upload_sequence = b.upload_sequence
    /\ a.code_buffer = b.code_buffer

IsStart(p) == p.cmd = WASM_CMD_START_UPLOAD /\ p.len \in UPLOAD_MIN_LEN..UPLOAD_MAX_LEN
IsContinue(p) == p.cmd = WASM_CMD_CONTINUE_UPLOAD

\* The bytes the chunk of p puts into an empty buffer.
ChunkImage(p, beyond) == TrimZeros(ChunkBytes(p, beyond))

(***************************************************************************)
(* C1: in every reachable state, whatever the interleaving of the upload   *)
(* handler with the worker thread's items, received_bytes <=               *)
(* expected_total <= WASM_CODE_BUFFER_SIZE.                                 *)
(***************************************************************************)
C1_ReceivedWithinExpected ==
    /\ wasm_bytes_received <= wasm_total_expected
    /\ wasm_total_expected <= WASM_CODE_BUFFER_SIZE

(***************************************************************************)
(* C2: while the session is Receiving, a Continue chunk whose sequence     *)
(* differs from next_sequence is rejected, leaves received_bytes,          *)
(* next_sequence and the buffer as they were and puts the session into     *)
(* Error; every Continue chunk after it is rejected as well, and the       *)
(* session becomes Receiving again only by a Start.                        *)
(***************************************************************************)
C2_MismatchRejected ==
    \A p \in ContinuePackets : \A beyond \in BeyondBytes(p) :
        (wasm_status = WASM_STATUS_RECEIVING /\ p.sequence # wasm_upload_sequence)
        => LET r == Handled(Here, p, beyond) IN
           /\ Rejected(r)
           /\ SameTransfer(r.s, Here)
           /\ r.s.status = WASM_STATUS_ERROR
           /\ \A q \in ContinuePackets : \A b \in BeyondBytes(q) :
                 /\ Rejected(Handled(r.s, q, b))
                 /\ SameTransfer(Handled(r.s, q, b).s, r.s)
                 /\ Handled(r.s, q, b).s.status = WASM_STATUS_ERROR

C2_ReceivingOnlyByStart ==
    (wasm_status # WASM_STATUS_RECEIVING /\ wasm_status' = WASM_STATUS_RECEIVING)
    => (ble'.writes = ble.writes + 1 /\ ble'.last = "start_chunk_accepted")

C2_SequenceMismatch ==
    [][C2_MismatchRejected /\ C2_MismatchRejected' /\ C2_ReceivingOnlyByStart]_vars

C2_Witness ==
    /\ ble.last = "sequence_mismatch"
    /\ wasm_status = WASM_STATUS_ERROR
    /\ wasm_bytes_received = 2
    /\ wasm_upload_sequence = 1

(***************************************************************************)
(* C3: within one transfer next_sequence equals the number of chunks       *)
(* accepted so far, for any number of accepted chunks: it never wraps.     *)
(***************************************************************************)
C3_SequenceCountsChunks ==
    wasm_status = WASM_STATUS_RECEIVING => wasm_upload_sequence = ble.accepted

(***************************************************************************)
(* C4 as stated: a Start whose total_size exceeds the buffer capacity is   *)
(* rejected with Overflow and leaves the session state, received_bytes,    *)
(* expected_total, next_sequence and the buffer as they were.              *)
(***************************************************************************)
C4_OversizeStartLeavesState ==
    \A p \in StartPackets : \A beyond \in BeyondBytes(p) :
        (IsStart(p) /\ p.total_size > WASM_CODE_BUFFER_SIZE)
        => LET r == Handled(Here, p, beyond) IN
           /\ Rejected(r)
           /\ r.s.error_code = WASM_ERROR_BUFFER_OVERFLOW
           /\ r.s.status = wasm_status
           /\ SameTransfer(r.s, Here)

(***************************************************************************)
(* C4 amended: a Start whose total_size exceeds the buffer capacity is     *)
(* rejected with Overflow and puts the session into Error; received_bytes, *)
(* expected_total, next_sequence and the buffer stay as they were.         *)
(***************************************************************************)
C4_OversizeStartRejected ==
    \A p \in StartPackets : \A beyond \in BeyondBytes(p) :
        (IsStart(p) /\ p.total_size > WASM_CODE_BUFFER_SIZE)
        => LET r == Handled(Here, p, beyond) IN
           /\ Rejected(r)
           /\ r.s.error_code = WASM_ERROR_BUFFER_OVERFLOW
           /\ r.s.status = WASM_STATUS_ERROR
           /\ SameTransfer(r.s, Here)

C4_Witness ==
    /\ ble.last = "start_too_large"
    /\ wasm_status = WASM_STATUS_ERROR
    /\ wasm_error_code = WASM_ERROR_BUFFER_OVERFLOW
    /\ wasm_bytes_received = 2
    /\ wasm_total_expected = 4

(***************************************************************************)
(* C5: a Continue chunk delivered while the session is not Receiving is    *)
(* rejected and leaves the session state, received_bytes, expected_total,  *)
(* next_sequence and the buffer as they were.                              *)
(***************************************************************************)
C5_ContinueNotReceiving ==
    \A p \in ContinuePackets \cup OtherPackets : \A beyond \in BeyondBytes(p) :
        (IsContinue(p) /\ wasm_status # WASM_STATUS_RECEIVING)
        => LET r == Handled(Here, p, beyond) IN
           /\ Rejected(r)
           /\ r.s.status = wasm_status
           /\ SameTransfer(r.s, Here)

C5_Witness ==
    /\ ble.last = "not_receiving"
    /\ wasm_status = WASM_STATUS_LOADED
    /\ wasm_bytes_received = 4

(***************************************************************************)
(* C6: a chunk with the expected sequence number whose bytes would take    *)
(* received_bytes beyond expected_total or beyond the buffer capacity is   *)
(* rejected with Overflow; no byte is copied, received_bytes and           *)
(* next_sequence stay as they were (for the chunk of a Start: as the       *)
(* Start set them, 0 and 0, with the buffer cleared).                      *)
(***************************************************************************)
C6_ChunkOverflow ==
    /\ \A p \in ContinuePackets : \A beyond \in BeyondBytes(p) :
          (/\ wasm_status = WASM_STATUS_RECEIVING
           /\ p.sequence = wasm_upload_sequence
           /\ \/ wasm_bytes_received + p.chunk_size > wasm_total_expected
              \/ wasm_bytes_received + p.chunk_size > WASM_CODE_BUFFER_SIZE)
          => LET r == Handled(Here, p, beyond) IN
             /\ Rejected(r)
             /\ r.s.error_code = WASM_ERROR_BUFFER_OVERFLOW
             /\ SameTransfer(r.s, Here)
    /\ \A p \in StartPackets : \A beyond \in BeyondBytes(p) :
          (/\ IsStart(p)
           /\ p.total_size <= WASM_CODE_BUFFER_SIZE
           /\ p.sequence = 0
           /\ p.chunk_size > p.total_size)
          => LET r == Handled(Here, p, beyond) IN
             /\ Rejected(r)
             /\ r.s.error_code = WASM_ERROR_BUFFER_OVERFLOW
             /\ r.s.code_buffer = ZeroBuffer
             /\ r.s.bytes_received = 0
             /\ r.s.upload_sequence = 0

C6_Witness ==
    /\ ble.last = "chunk_overflow"
    /\ wasm_error_code = WASM_ERROR_BUFFER_OVERFLOW
    /\ wasm_bytes_received = 2
    /\ wasm_upload_sequence = 1
    /\ wasm_code_buffer = <<0, 97>>

\* The writes that carry a chunk.
ChunkPackets == StartPackets \cup ContinuePackets \cup QueuePackets

IsChunk(p) ==
    /\ p.cmd \in {WASM_CMD_START_UPLOAD, WASM_CMD_CONTINUE_UPLOAD}
    /\ p.len \in UPLOAD_MIN_LEN..UPLOAD_MAX_LEN

(***************************************************************************)
(* C7 as stated: an accepted chunk moves the session to Received and       *)
(* enqueues exactly one LoadModule item if and only if it makes            *)
(* received_bytes equal expected_total; otherwise the session stays        *)
(* Receiving and nothing is enqueued.                                      *)
(***************************************************************************)
C7_CompletionAlwaysQueuesLoad ==
    \A p \in ChunkPackets : \A beyond \in BeyondBytes(p) :
        LET r == Handled(Here, p, beyond) IN
        (IsChunk(p) /\ ~Rejected(r))
        => IF r.s.bytes_received = r.s.total_expected
           THEN /\ r.s.status = WASM_STATUS_RECEIVED
                /\ r.s.work_queue = Append(wasm_work_queue, LoadMsg)
           ELSE /\ r.s.status = WASM_STATUS_RECEIVING
                /\ r.s.work_queue = wasm_work_queue

(***************************************************************************)
(* C7 amended: an accepted chunk that makes received_bytes equal           *)
(* expected_total moves the session to Received and enqueues exactly one   *)
(* LoadModule item when the work queue holds fewer than                    *)
(* WASM_MSGQ_MAX_MSGS items; when the queue is full the session goes to    *)
(* Error with LoadFailed and nothing is enqueued.  Any other accepted      *)
(* chunk leaves the session Receiving and enqueues nothing.                *)
(***************************************************************************)
C7_CompletionQueuesLoad ==
    \A p \in ChunkPackets : \A beyond \in BeyondBytes(p) :
        LET r == Handled(Here, p, beyond) IN
        (IsChunk(p) /\ ~Rejected(r))
        => IF r.s.bytes_received # r.s.total_expected
           THEN /\ r.s.status = WASM_STATUS_RECEIVING
                /\ r.s.work_queue = wasm_work_queue
           ELSE IF Len(wasm_work_queue) < WASM_MSGQ_MAX_MSGS
           THEN /\ r.s.status = WASM_STATUS_RECEIVED
                /\ r.s.work_queue = Append(wasm_work_queue, LoadMsg)
           ELSE /\ r.s.status = WASM_STATUS_ERROR
                /\ r.s.error_code = WASM_ERROR_LOAD_FAILED
                /\ r.s.work_queue = wasm_work_queue

C7_Witness ==
    /\ ble.last = "complete_queued"
    /\ ble.accepted = 2
    /\ wasm_status = WASM_STATUS_RECEIVED
    /\ wasm_bytes_received = 4
    /\ wasm_total_expected = 4
    /\ wasm_work_queue = <<ResetMsg, LoadMsg>>

(***************************************************************************)
(* C8: a Start with total_size <= capacity, in any session state, clears   *)
(* the buffer, sets expected_total = total_size, received_bytes = 0,       *)
(* next_sequence = 0 and state Receiving, and then handles its own payload *)
(* as chunk 0: with sequence 0 and n <= total_size bytes the session ends  *)
(* with received_bytes = n, next_sequence = 1 and exactly those n bytes in *)
(* the buffer; otherwise the chunk is refused and the session is left      *)
(* empty.                                                                  *)
(***************************************************************************)
C8_StartOpensTransfer ==
    \A p \in StartPackets \cup QueuePackets : \A beyond \in BeyondBytes(p) :
        (IsStart(p) /\ p.total_size <= WASM_CODE_BUFFER_SIZE)
        => LET r == Handled(Here, p, beyond) IN
           /\ r.s.total_expected = p.total_size
           /\ IF p.sequence = 0 /\ p.chunk_size <= p.total_size
              THEN /\ r.ret = p.len
                   /\ r.s.bytes_received = p.chunk_size
                   /\ r.s.upload_sequence = 1
                   /\ r.s.code_buffer = ChunkImage(p, beyond)
                   /\ r.s.status =
                        IF p.chunk_size < p.total_size THEN WASM_STATUS_RECEIVING
                        ELSE IF Len(wasm_work_queue) < WASM_MSGQ_MAX_MSGS
                        THEN WASM_STATUS_RECEIVED
                        ELSE WASM_STATUS_ERROR
              ELSE /\ Rejected(r)
                   /\ r.s.bytes_received = 0
                   /\ r.s.upload_sequence = 0
                   /\ r.s.code_buffer = ZeroBuffer
                   /\ r.s.status = WASM_STATUS_ERROR

C8_Witness ==
    /\ ble.last = "start_chunk_accepted"
    /\ ble.writes = 3
    /\ wasm_status = WASM_STATUS_RECEIVING
    /\ wasm_total_expected = 4
    /\ wasm_bytes_received = 2
    /\ wasm_upload_sequence = 1
    /\ wasm_code_buffer = <<0, 97>>
    /\ worker.pc = "ld_magic"

(***************************************************************************)
(* C9: when the worker thread finishes a LoadModule item, the session is   *)
(* Loaded with error code None if parse, load and compile all succeeded,   *)
(* and is Error with the error code of the failing step otherwise.         *)
(***************************************************************************)
LoadErrorCodes ==
    {WASM_ERROR_INVALID_PARAMS, WASM_ERROR_INVALID_MAGIC, WASM_ERROR_PARSE_FAILED,
     WASM_ERROR_LOAD_FAILED, WASM_ERROR_COMPILE_FAILED}

LoadItemFinishes ==
    /\ worker.pc \in {"th_loaded_code", "th_error_status"}
    /\ worker'.pc = "wait"

C9_LoadItemOutcome ==
    [][LoadItemFinishes =>
          IF worker.ret = 0
          THEN /\ wasm_status' = WASM_STATUS_LOADED
               /\ wasm_error_code' = WASM_ERROR_NONE
          ELSE /\ wasm_status' = WASM_STATUS_ERROR
               /\ worker.code \in LoadErrorCodes
               /\ wasm_error_code' = worker.code]_vars

(***************************************************************************)
(* C10: when the reassembled payload does not begin with the module magic, *)
(* the worker thread finishes its LoadModule item with status Error and    *)
(* error code InvalidMagic, has called none of parse, load and compile,    *)
(* and is back waiting for the next item.                                  *)
(***************************************************************************)
C10_InvalidMagicOutcome ==
    [][(LoadItemFinishes /\ worker.code = WASM_ERROR_INVALID_MAGIC) =>
          /\ wasm_status' = WASM_STATUS_ERROR
          /\ wasm_error_code' = WASM_ERROR_INVALID_MAGIC
          /\ \A i \in 1..Len(worker.m3_calls) :
                worker.m3_calls[i] \notin
                    {"m3_ParseModule", "m3_LoadModule", "m3_CompileModule"}
          /\ worker'.pc = "wait"]_vars

(***************************************************************************)
(* The worker thread's steps inside an Execute item.                       *)
(***************************************************************************)
ExecItemStep == worker.pc \in ExecPcs /\ worker' # worker

ExecItemFinishes == worker.pc \in ExecPcs /\ worker'.pc = "wait"

Handles == <<wasm_env, wasm_runtime, wasm_module>>

(***************************************************************************)
(* C11: when the worker thread finishes an Execute item, the session is    *)
(* Loaded, whether the call succeeded, the function was not found, the     *)
(* argument count was invalid or the call failed, and the                  *)
(* module, runtime and environment handles are those of before the item.   *)
(***************************************************************************)
C11_LoadedWhenItemFinishes ==
    [][/\ ExecItemFinishes => wasm_status' = WASM_STATUS_LOADED
       /\ ExecItemStep => Handles' = Handles]_vars

\* The execute writes that reach wasm_execute_handler.
ExecuteRequests == {p \in ExecutePackets : p.len >= SIZEOF_EXECUTE_PACKET}

(***************************************************************************)
(* C12: an Execute request received while the session is not Loaded, in    *)
(* particular while it is Receiving, puts nothing into the work queue,     *)
(* sets the result slot to status Error with error code LoadFailed, and    *)
(* leaves the session state, received_bytes, expected_total, next_sequence *)
(* and the buffer as they were.                                            *)
(***************************************************************************)
C12_ExecuteNotLoaded ==
    \A p \in ExecuteRequests :
        wasm_status # WASM_STATUS_LOADED
        => LET r == wasm_execute_handler_ble(Here, p) IN
           /\ ~r.queued
           /\ r.s.work_queue = wasm_work_queue
           /\ r.s.last_result_valid
           /\ r.s.last_result.status = WASM_STATUS_ERROR
           /\ r.s.last_result.error_code = WASM_ERROR_LOAD_FAILED
           /\ r.s.status = wasm_status
           /\ SameTransfer(r.s, Here)

\* An Execute request has been refused in the middle of a transfer.
C12_Witness ==
    /\ ble.last = "execute_not_loaded"
    /\ wasm_status = WASM_STATUS_RECEIVING
    /\ wasm_bytes_received = 2
    /\ last_result_valid
    /\ last_result.error_code = WASM_ERROR_LOAD_FAILED
    /\ wasm_work_queue = <<>>

\* The work queue after the upload write p has been handled in state s.
QueueAfterUpload(s, p) == Handled(s, p, <<>>).s.work_queue

ResetPacket == UploadPacket(WASM_CMD_RESET, 0, 0, 0, <<>>)

(***************************************************************************)
(* C13: the work queue never holds more than WASM_MSGQ_MAX_MSGS = 4 items: *)
(* an enqueue attempted while 4 are pending fails at once and leaves the   *)
(* queue as it was, and once the worker thread has taken an item out of a  *)
(* full queue the next enqueue succeeds.                                   *)
(***************************************************************************)
C13_QueueCapacity ==
    /\ Len(wasm_work_queue) <= WASM_MSGQ_MAX_MSGS
    /\ Len(wasm_work_queue) = WASM_MSGQ_MAX_MSGS
          => /\ \A p \in QueuePackets : QueueAfterUpload(Here, p) = wasm_work_queue
             /\ Handled(Here, ResetPacket, <<>>).branch = "reset_dropped"
             /\ \A p \in ExecuteRequests :
                   /\ wasm_execute_handler_ble(Here, p).s.work_queue = wasm_work_queue
                   /\ ~wasm_execute_handler_ble(Here, p).queued
    /\ Len(wasm_work_queue) < WASM_MSGQ_MAX_MSGS
          => /\ QueueAfterUpload(Here, ResetPacket) = Append(wasm_work_queue, ResetMsg)
             /\ Handled(Here, ResetPacket, <<>>).branch = "reset_queued"

\* Five commands were queued: the fifth took the place the worker thread's
\* k_msgq_get had made, and the queue is full again.
C13_Witness ==
    /\ Len(wasm_work_queue) = WASM_MSGQ_MAX_MSGS
    /\ worker.pc # "wait"
    /\ ble.last = "reset_queued"
    /\ ble.writes = 5

\* The kind of item the worker thread is busy with at pc.
ItemAt(pc) ==
    CASE pc \in LoadPcs \cup {"th_loaded_status", "th_loaded_code", "th_error_status"}
            -> WASM_MSG_LOAD_MODULE
      [] pc \in ExecPcs -> WASM_MSG_EXECUTE_FUNCTION
      [] pc \in ResetPcs -> WASM_MSG_RESET
      [] OTHER -> "none"

(***************************************************************************)
(* C14: the worker thread handles the items in the order they were put     *)
(* into the queue, one at a time.  The queue changes only by a put, which  *)
(* appends behind the pending items, and by the thread's get, which takes  *)
(* the oldest item and happens only when the thread holds no item; the     *)
(* thread keeps the item it took until that item is finished.  So an item  *)
(* put before another is finished before the other is started (a           *)
(* LoadModule before an Execute put after it), and a Reset never runs      *)
(* together with another item.                                             *)
(***************************************************************************)
C14_ItemsInQueueOrder ==
    [][/\ wasm_work_queue' # wasm_work_queue
            => \/ /\ Len(wasm_work_queue') = Len(wasm_work_queue) + 1
                  /\ SubSeq(wasm_work_queue', 1, Len(wasm_work_queue)) = wasm_work_queue
                  /\ worker' = worker
               \/ /\ worker.pc = "wait" /\ worker.msg = NoMsg
                  /\ worker'.msg = Head(wasm_work_queue)
                  /\ wasm_work_queue' = Tail(wasm_work_queue)
       /\ worker'.msg # worker.msg
            => \/ worker.pc = "wait" /\ wasm_work_queue' = Tail(wasm_work_queue)
               \/ worker.pc # "wait" /\ worker'.pc = "wait" /\ worker'.msg = NoMsg
       /\ worker'.pc # "fault" => worker'.msg.type = ItemAt(worker'.pc)]_vars

\* A LoadModule item is finished, the Execute item put after it is being
\* handled and the Reset item put after that waits in the queue.
C14_Witness ==
    /\ worker.msg.type = WASM_MSG_EXECUTE_FUNCTION
    /\ worker.pc = "ex_call"
    /\ wasm_module # NULL
    /\ wasm_work_queue = <<ResetMsg>>

\* The Status data or the Result data of s show an error.
VisibleError(s) ==
    \/ s.status = WASM_STATUS_ERROR /\ s.error_code # WASM_ERROR_NONE
    \/ /\ s.last_result_valid
       /\ s.last_result.status = WASM_STATUS_ERROR
       /\ s.last_result.error_code # WASM_ERROR_NONE

(***************************************************************************)
(* C15: whenever a put from the transport context fails because the queue  *)
(* is full, for a LoadModule, an Execute or a Reset item, the handler      *)
(* leaves an error that a client can read: status Error with an error code *)
(* other than None in the Status data or in the Result data.               *)
(***************************************************************************)
C15_QueueFullVisible ==
    Len(wasm_work_queue) = WASM_MSGQ_MAX_MSGS
    => /\ \A p \in QueuePackets :
             Handled(Here, p, <<>>).branch \in {"complete_queue_full",
                                                "start_complete_queue_full",
                                                "reset_dropped"}
             => VisibleError(Handled(Here, p, <<>>).s)
       /\ \A p \in ExecuteRequests :
             wasm_execute_handler_ble(Here, p).branch = "execute_queue_full"
             => VisibleError(wasm_execute_handler_ble(Here, p).s)

(***************************************************************************)
(* C16: every handler of the transport context (upload Start, Continue,    *)
(* End and Reset, execute request, status read, result read) runs to       *)
(* completion in every reachable state, also when the queue is full or the *)
(* worker thread is in the middle of an item: the handler returns to its   *)
(* caller without waiting for the queue or the worker thread.              *)
(***************************************************************************)
C16_HandlersComplete ==
    /\ \A p \in EndPackets \cup QueuePackets : \A outcomes \in LoadOutcomes(p) :
          LET r == wasm_upload_handler_ble(Here, p, <<>>, outcomes)
          IN ~r.fault /\ r.ret \in Int
    /\ \A p \in ExecutePackets :
          wasm_execute_handler_ble(Here, p).queued \in BOOLEAN
    /\ \A u \in Uptimes : wasm_status_handler_ble(Here, u).ret > 0
    /\ wasm_result_handler_ble(Here).ret > 0

(***************************************************************************)
(* C17: the operations of the module runtime are performed by the worker   *)
(* thread only: no upload command (Start, Continue, End, Reset) and no     *)
(* execute request makes the transport context call the runtime.           *)
(***************************************************************************)
C17_RuntimeCallsByWorkerOnly ==
    /\ \A p \in UploadPackets : \A beyond \in BeyondBytes(p) :
          \A outcomes \in LoadOutcomes(p) :
             wasm_upload_handler_ble(Here, p, beyond, outcomes).s.m3_calls = <<>>
    /\ \A p \in ExecutePackets : wasm_execute_handler_ble(Here, p).s.m3_calls = <<>>
    /\ ble.m3_calls = <<>>

\* The result slot: last_result and its valid flag.
ResultSlot(s) == <<s.last_result, s.last_result_valid>>

(***************************************************************************)
(* C18: the result slot (last_result and its valid flag) is written by the *)
(* worker thread only; the handlers of the transport context read it and   *)
(* never write it.  In particular, when the slot holds the result of a     *)
(* completed call, which only the worker thread stores, no upload command  *)
(* and no execute request clears or overwrites it.                         *)
(***************************************************************************)
C18_ResultSlotByWorkerOnly ==
    (last_result_valid /\ last_result.status = WASM_STATUS_COMPLETE)
    => /\ \A p \in UploadPackets : \A beyond \in BeyondBytes(p) :
             ResultSlot(Handled(Here, p, beyond).s) = ResultSlot(Here)
       /\ \A p \in ExecutePackets :
             ResultSlot(wasm_execute_handler_ble(Here, p).s) = ResultSlot(Here)

\* The worker thread is in the part of load_wasm_module that reads
\* wasm_code_buffer: from validate_wasm_magic to the return of m3_ParseModule.
LoadReadsBuffer == worker.pc \in {"ld_magic", "ld_env_check", "ld_parse"}

(***************************************************************************)
(* C19: the transport context never writes the transfer buffer (clearing   *)
(* it on a Start or copying a chunk into it) while the worker thread is    *)
(* reading that buffer for a LoadModule item: the buffer is written only   *)
(* while the session is Receiving and read only after the transfer is      *)
(* complete, and the two never overlap.                                    *)
(***************************************************************************)
C19_NoWriteWhileLoading ==
    [][wasm_code_buffer' # wasm_code_buffer => ~LoadReadsBuffer]_vars

\* The worker thread executes the last statement of a Reset item.
ResetItemFinishes == worker.pc = "rs_valid" /\ worker'.pc = "wait"

\* The frees of a Reset item in the order of the code, each one made or not.
FreeOrders ==
    {<<>>, <<"m3_FreeModule">>, <<"m3_FreeRuntime">>, <<"m3_FreeEnvironment">>,
     <<"m3_FreeModule", "m3_FreeRuntime">>, <<"m3_FreeModule", "m3_FreeEnvironment">>,
     <<"m3_FreeRuntime", "m3_FreeEnvironment">>,
     <<"m3_FreeModule", "m3_FreeRuntime", "m3_FreeEnvironment">>}

(***************************************************************************)
(* C20: a Reset item frees the module, then the runtime, then the          *)
(* environment, each only if present, and when the item is finished the    *)
(* session is fully cleared: state Idle, error code None, received_bytes,  *)
(* expected_total and next_sequence 0, the buffer zeroed, the result slot  *)
(* invalid and no module, runtime or environment handle left.              *)
(***************************************************************************)
C20_ResetClearsSession ==
    [][ResetItemFinishes =>
          /\ worker.m3_calls \in FreeOrders
          /\ wasm_status' = WASM_STATUS_IDLE
          /\ wasm_error_code' = WASM_ERROR_NONE
          /\ wasm_bytes_received' = 0
          /\ wasm_total_expected' = 0
          /\ wasm_upload_sequence' = 0
          /\ wasm_code_buffer' = ZeroBuffer
          /\ ~last_result_valid'
          /\ wasm_module' = NULL /\ wasm_runtime' = NULL /\ wasm_env' = NULL]_vars

\* The session, the result slot and the runtime handles of s.
Session(s) == [s EXCEPT !.m3_calls = <<>>, !.work_queue = <<>>]

(***************************************************************************)
(* C21: Reset is idempotent.  From every reachable state, two Reset items  *)
(* handled one after the other leave the same session, result slot and     *)
(* runtime handles as one, with state Idle and error code None, and the    *)
(* second of them frees nothing.                                           *)
(***************************************************************************)
C21_ResetIdempotent ==
    LET once == reset_wasm_service_internal(Here)
        twice == reset_wasm_service_internal(Session(once))
    IN /\ Session(twice) = Session(once)
       /\ twice.m3_calls = <<>>
       /\ once.status = WASM_STATUS_IDLE
       /\ once.error_code = WASM_ERROR_NONE
       /\ once.module = NULL /\ once.runtime = NULL /\ once.env = NULL

\* Two Reset items wait in the queue while a module is loaded: the first
\* has three handles to free.
C21_Witness ==
    /\ wasm_work_queue = <<ResetMsg, ResetMsg>>
    /\ worker.pc = "wait"
    /\ wasm_module # NULL /\ wasm_runtime # NULL /\ wasm_env # NULL
    /\ Len(reset_wasm_service_internal(Here).m3_calls) = 3

\* The step calls op: a statement of the worker thread's item, or a write
\* whose handler calls it.
M3Called(op, pc) ==
    \/ worker.pc = pc /\ worker' # worker
    \/ /\ ble'.writes = ble.writes + 1
       /\ \E i \in 1..Len(ble'.m3_calls) : ble'.m3_calls[i] = op

(***************************************************************************)
(* C22: runtime creation is idempotent.  A LoadModule item handled while   *)
(* the environment and the runtime exist creates neither again, and no     *)
(* step creates an environment or a runtime while one is live, so that at  *)
(* most one environment and one runtime are live at any time, whatever the *)
(* sequence of uploads and resets.                                         *)
(***************************************************************************)
C22_OneRuntime ==
    [][/\ M3Called("m3_NewEnvironment", "ld_new_env") => wasm_env = NULL
       /\ M3Called("m3_NewRuntime", "ld_new_runtime") => wasm_runtime = NULL
       /\ (worker.pc = "ld_ensure" /\ worker' # worker
             /\ wasm_runtime_initialized /\ wasm_env # NULL /\ wasm_runtime # NULL)
            => worker'.pc = "ld_magic" /\ worker'.m3_calls = <<>>]_vars

EndPacket == UploadPacket(WASM_CMD_END_UPLOAD, 0, 0, 0, <<>>)

(***************************************************************************)
(* C23: an End command is honoured only while the session is Receiving:    *)
(* there it makes the bytes received so far the final payload size and     *)
(* moves the session to Received.  In every other state an End command     *)
(* changes neither the session state nor a counter nor the buffer.         *)
(***************************************************************************)
C23_EndOnlyWhileReceiving ==
    \A outcomes \in LoadOutcomes(EndPacket) :
        LET r == wasm_upload_handler_ble(Here, EndPacket, <<>>, outcomes) IN
        IF wasm_status = WASM_STATUS_RECEIVING
        THEN /\ r.s.code_size = wasm_bytes_received
             /\ r.s.status = WASM_STATUS_RECEIVED
             /\ SameTransfer(r.s, Here)
        ELSE /\ r.s.status = wasm_status
             /\ r.s.code_size = wasm_code_size
             /\ SameTransfer(r.s, Here)
             /\ r.branch = "end_ignored"

\* An End has closed a transfer of 4 bytes after 2.
C23_Witness ==
    /\ ble.last \in {"end_loaded", "end_load_failed"}
    /\ wasm_status = WASM_STATUS_RECEIVED
    /\ wasm_code_size = 2
    /\ wasm_bytes_received = 2
    /\ wasm_total_expected = 4

\* C24: wasm_service_validate_magic returns true exactly when the length
\* is at least 4 and the first four bytes are 0x00 0x61 0x73 0x6d, for
\* every buffer and length of the caller, and the call leaves the statics
\* of both services as they were.
C24_ValidateMagic ==
    /\ app.done =>
          (app.ret <=> /\ app.size >= 4
                       /\ SubSeq(app.data, 1, 4) = <<0, 97, 115, 109>>)
    /\ Here = [InitStatics EXCEPT !.m3_calls = <<>>]
    /\ sprite = sprite_service_init

C24_Witness ==
    /\ app.done /\ app.ret
    /\ app.size = 4 /\ Len(app.data) = 5

(***************************************************************************)
(* CRC-16/CCITT-FALSE as a remainder of polynomials over GF(2); a          *)
(* polynomial is the set of the exponents of its terms.                    *)
(***************************************************************************)
\* x^16 + x^12 + x^5 + 1
CcittGenerator == {16, 12, 5, 0}

PolyAdd(p, q) == (p \ q) \cup (q \ p)

PolyDegree(p) == CHOOSE e \in p : \A f \in p : f <= e

RECURSIVE PolyMod(_, _)
PolyMod(p, g) ==
    IF p = {} \/ PolyDegree(p) < PolyDegree(g) THEN p
    ELSE PolyMod(PolyAdd(p, {e + PolyDegree(p) - PolyDegree(g) : e \in g}), g)

RECURSIVE PolyValue(_)
PolyValue(p) ==
    IF p = {} THEN 0 ELSE 2 ^ PolyDegree(p) + PolyValue(p \ {PolyDegree(p)})

\* The message, most significant bit of the first byte first, times x^16.
MessagePoly(data) ==
    {16 + 8 * (Len(data) - k) + j : <<k, j>> \in
        {<<k, j>> \in (1..Len(data)) \X (0..7) : (data[k] \div (2 ^ j)) % 2 = 1}}

\* The initial register 0xFFFF, ahead of the message.
InitialPoly(data) == {8 * Len(data) + e : e \in 0..15}

Crc16CcittFalse(data) ==
    PolyValue(PolyMod(PolyAdd(MessagePoly(data), InitialPoly(data)), CcittGenerator))

\* C25: sprite_service_calculate_crc16 returns the CRC-16/CCITT-FALSE of
\* the bytes it is given (initial value 0xFFFF, polynomial 0x1021, most
\* significant bit first, no final XOR, 16 bits), for every buffer and
\* length of the caller: 0xFFFF for no bytes and 0x29B1 for "123456789".
C25_Crc16MatchesReference ==
    app.done =>
        /\ app.ret = Crc16CcittFalse(SubSeq(app.data, 1, app.size))
        /\ app.size = 0 => app.ret = 65535
        /\ (app.data = CheckString /\ app.size = 9) => app.ret = 10673
        /\ app.ret \in 0..65535

C25_Witness == app.done /\ app.data = CheckString /\ app.ret = 10673

(***************************************************************************)
(* The sprite service: a request followed by the read of its response.     *)
(***************************************************************************)
DownloadOf(sp, id) ==
    sprite_download_response_handler(
        sprite_download_request_handler(sp, SpriteRequest(id)).sp).response

VerifyOf(sp, id) ==
    sprite_verify_response_handler(
        sprite_verify_request_handler(sp, SpriteRequest(id)).sp).response

SameRegistry(a, b) ==
    /\ a.sprite_registry = b.sprite_registry
    /\ a.sprite_count = b.sprite_count
    /\ a.last_sprite_id = b.last_sprite_id

\* C26: an upload whose declared CRC differs from the CRC of its bitmap is
\* rejected with the CRC error, for an id that is stored as for one that is
\* not: every slot, the sprite count and last_sprite_id are as before, the
\* CRC error counter (16 bits) is one more, and a download of the id
\* answers what it answered before.
C26_CrcMismatchRejected ==
    \A p \in BadUploads :
        LET r == sprite_upload_handler(sprite, p) IN
        /\ r.status = SPRITE_STATUS_CRC_ERROR
        /\ r.ret = BT_GATT_ERR_UNLIKELY
        /\ SameRegistry(r.sp, sprite)
        /\ r.sp.crc_error_count = UInt16(sprite.crc_error_count + 1)
        /\ DownloadOf(r.sp, p.sprite_id) = DownloadOf(sprite, p.sprite_id)

\* A rejected upload has left the one stored sprite alone.
C26_Witness ==
    /\ sprite.crc_error_count = 1
    /\ sprite.last_operation = OPERATION_UPLOAD
    /\ sprite.registry_status = REGISTRY_STATUS_ERROR
    /\ sprite.sprite_count = 1
    /\ DownloadOf(sprite, 0).status = SPRITE_STATUS_SUCCESS
    /\ DownloadOf(sprite, 0).bitmap_data = BitmapA

\* The indices of the valid slots, and of those that hold an id.
ValidSlots(sp) == {i \in 0..(SPRITE_MAX_COUNT - 1) : SlotAt(sp, i).is_valid}

SlotsOf(sp, id) == {i \in ValidSlots(sp) : SlotAt(sp, i).sprite_id = id}

\* The registry b is the registry a with the packet's sprite at index at.
StoredAt(a, b, at, p) ==
    \A i \in 0..(SPRITE_MAX_COUNT - 1) :
        SlotAt(b, i) = IF i = at
                       THEN [sprite_id |-> p.sprite_id, bitmap_data |-> p.bitmap_data,
                             crc16 |-> p.crc16, is_valid |-> TRUE]
                       ELSE SlotAt(a, i)

\* Uploads with the right checksum: of the first and of the last sprite
\* stored, of the next id and of a far one.
StorePackets ==
    {SpriteUpload(id, b, ClientCrc[b]) :
        id \in {0, Max(sprite.sprite_count, 1) - 1, sprite.sprite_count, 1000},
        b \in Bitmaps}

\* C27: an upload with the right CRC for an id that has a valid entry
\* rewrites that entry where it is and keeps the sprite count, also when
\* every slot is valid; for an id with no valid entry, while a slot is
\* free, it fills the free slot of lowest index and the sprite count grows
\* by 1; the download of the id that follows returns the bitmap and the CRC
\* of the upload.
C27_StoreUpdatesOrInserts ==
    \A p \in StorePackets :
        LET r == sprite_upload_handler(sprite, p)
            held == SlotsOf(sprite, p.sprite_id)
            free == (0..(SPRITE_MAX_COUNT - 1)) \ ValidSlots(sprite)
            stored ==
                /\ r.status = SPRITE_STATUS_SUCCESS
                /\ r.ret = SIZEOF_SPRITE_UPLOAD_PACKET
                /\ DownloadOf(r.sp, p.sprite_id) =
                       [sprite_id |-> p.sprite_id, bitmap_data |-> p.bitmap_data,
                        crc16 |-> p.crc16, status |-> SPRITE_STATUS_SUCCESS]
        IN IF held # {}
           THEN /\ stored
                /\ \E at \in held : StoredAt(sprite, r.sp, at, p)
                /\ r.sp.sprite_count = sprite.sprite_count
           ELSE free # {} =>
                /\ stored
                /\ \E at \in free : /\ \A i \in free : at <= i
                                    /\ StoredAt(sprite, r.sp, at, p)
                /\ r.sp.sprite_count = sprite.sprite_count + 1

\* Sprite 0 has been uploaded again after the last slot was filled.
C27_Witness ==
    /\ ValidSlots(sprite) = 0..(SPRITE_MAX_COUNT - 1)
    /\ sprite.sprite_count = SPRITE_MAX_COUNT
    /\ sprite.last_sprite_id = 0
    /\ SlotAt(sprite, 0).bitmap_data = BitmapA
    /\ SlotAt(sprite, SPRITE_MAX_COUNT - 1).sprite_id = SPRITE_MAX_COUNT - 1

\* C28: with all SPRITE_MAX_COUNT slots valid, an upload with the right
\* CRC for an id that no slot holds fails with RegistryFull; every slot,
\* the sprite count and last_sprite_id are as before.
C28_RegistryFull ==
    ValidSlots(sprite) = 0..(SPRITE_MAX_COUNT - 1) =>
        \A p \in StorePackets :
            SlotsOf(sprite, p.sprite_id) = {} =>
                LET r == sprite_upload_handler(sprite, p) IN
                /\ r.status = SPRITE_STATUS_REGISTRY_FULL
                /\ r.ret = BT_GATT_ERR_UNLIKELY
                /\ SameRegistry(r.sp, sprite)
                /\ r.sp.crc_error_count = sprite.crc_error_count

\* The upload of a 257th sprite has been refused.
C28_Witness ==
    /\ ValidSlots(sprite) = 0..(SPRITE_MAX_COUNT - 1)
    /\ sprite.sprite_count = SPRITE_MAX_COUNT
    /\ SlotsOf(sprite, SPRITE_MAX_COUNT) = {}
    /\ sprite.registry_status = REGISTRY_STATUS_ERROR
    /\ sprite.last_operation = OPERATION_UPLOAD

\* The bytes of a stored bitmap that are changed, and what a byte becomes.
CorruptedBytes == {1, 16, SPRITE_DATA_SIZE}

Corruptions(byte) == {(byte + 1) % 256, (byte + 128) % 256, 255 - byte} \ {byte}

\* The statics with one byte of the bitmap at a slot index replaced.
Corrupted(sp, at, k, byte) ==
    [sp EXCEPT !.sprite_registry[at + 1].bitmap_data[k] = byte]

\* C29: in every state reached by uploads, download and verify requests
\* and clears, the verification of an id that has a valid entry answers
\* Valid with stored_crc16 = calculated_crc16, and answers Invalid once one
\* byte of the stored bitmap has been changed; the verification of an id
\* without a valid entry answers NotFound.
C29_VerifyRoundTrip ==
    \A id \in RequestIds \cup {SPRITE_ID_INVALID} :
        LET v == VerifyOf(sprite, id) IN
        /\ v.sprite_id = id
        /\ IF SlotsOf(sprite, id) # {}
           THEN /\ v.verification_status = VERIFY_STATUS_VALID
                /\ v.stored_crc16 = v.calculated_crc16
                /\ \A at \in SlotsOf(sprite, id) : \A k \in CorruptedBytes :
                      \A byte \in Corruptions(SlotAt(sprite, at).bitmap_data[k]) :
                          VerifyOf(Corrupted(sprite, at, k, byte), id).verification_status
                              = VERIFY_STATUS_INVALID
           ELSE v.verification_status = VERIFY_STATUS_NOT_FOUND

\* Sprite 1 is the one sprite stored, two uploads have been rejected, and
\* the verification of sprite 1 has been requested.
C29_Witness ==
    /\ sprite.last_operation = OPERATION_VERIFY
    /\ sprite.last_sprite_id = 1
    /\ SlotsOf(sprite, 1) = {0}
    /\ sprite.crc_error_count = MaxCrcErrors
    /\ sprite_verify_response_handler(sprite).response.verification_status
          = VERIFY_STATUS_VALID

\* C30: after sprite_service_clear_registry no slot is valid: the sprite
\* count is 0, the registry status reports SPRITE_MAX_COUNT free slots,
\* sprite_exists is false and download and verification answer not-found
\* for every id, and the upload of any id but 0xFFFF with the right CRC
\* that follows succeeds.
C30_ClearRegistry ==
    LET cleared == sprite_service_clear_registry(sprite) IN
    /\ ValidSlots(cleared) = {}
    /\ cleared.sprite_count = 0
    /\ sprite_registry_status_handler(cleared).response.total_sprites = 0
    /\ sprite_registry_status_handler(cleared).response.free_slots = SPRITE_MAX_COUNT
    /\ \A id \in RequestIds \cup {1000, SPRITE_ID_INVALID} :
          /\ ~sprite_service_sprite_exists(cleared, id)
          /\ DownloadOf(cleared, id).status = SPRITE_STATUS_NOT_FOUND
          /\ VerifyOf(cleared, id).verification_status = VERIFY_STATUS_NOT_FOUND
    /\ \A p \in {q \in GoodUploads : q.sprite_id # SPRITE_ID_INVALID} :
          LET r == sprite_upload_handler(cleared, p) IN
          /\ r.status = SPRITE_STATUS_SUCCESS
          /\ r.ret = SIZEOF_SPRITE_UPLOAD_PACKET
          /\ sprite_service_sprite_exists(r.sp, p.sprite_id)
          /\ r.sp.sprite_count = 1

\* The registry has been cleared after uploads, two of them rejected.
C30_Witness ==
    /\ ValidSlots(sprite) = {}
    /\ sprite.sprite_count = 0
    /\ sprite.last_sprite_id = SPRITE_ID_INVALID
    /\ sprite.last_operation = OPERATION_UPLOAD
    /\ sprite.registry_status = REGISTRY_STATUS_READY
    /\ sprite.crc_error_count = MaxCrcErrors

\* C40: after any sequence of uploads (stored, refused for their CRC or
\* for the id 0xFFFF), download and verify requests and clears, the sprite
\* count is the number of valid slots and at most SPRITE_MAX_COUNT, the
\* registry status reports that count and SPRITE_MAX_COUNT minus it as free
\* slots, no two valid slots hold the same id, and no valid slot holds
\* 0xFFFF.
C40_RegistryInvariant ==
    LET status == sprite_registry_status_handler(sprite).response IN
    /\ sprite.sprite_count = Cardinality(ValidSlots(sprite))
    /\ sprite.sprite_count <= SPRITE_MAX_COUNT
    /\ status.total_sprites = Cardinality(ValidSlots(sprite))
    /\ status.free_slots = SPRITE_MAX_COUNT - Cardinality(ValidSlots(sprite))
    /\ \A i, j \in ValidSlots(sprite) :
          SlotAt(sprite, i).sprite_id = SlotAt(sprite, j).sprite_id => i = j
    /\ SlotsOf(sprite, SPRITE_ID_INVALID) = {}

\* Two sprites are stored, sprite 0 uploaded twice, two uploads have been
\* refused for their CRC, and a download has been requested.
C40_Witness ==
    /\ Cardinality(ValidSlots(sprite)) = 2
    /\ SlotAt(sprite, 0).sprite_id = 1
    /\ SlotAt(sprite, 1).sprite_id = 0
    /\ SlotAt(sprite, 1).bitmap_data = BitmapA
    /\ sprite.crc_error_count = MaxCrcErrors
    /\ sprite.last_operation = OPERATION_DOWNLOAD
    /\ sprite.last_sprite_id = 2

\* C38: in every reachable state with status Error the error code is
\* different from None, whatever the interleaving of the transport handlers
\* with the worker thread.
C38_ErrorHasCode ==
    wasm_status = WASM_STATUS_ERROR => wasm_error_code # WASM_ERROR_NONE

\* C39: in every reachable state with status Loaded the runtime is
\* initialized and a module handle is present (wasm_service_is_ready), and
\* whenever runtime_initialized is set the environment and the runtime
\* handles are not NULL.
C39_LoadedMeansReady ==
    /\ wasm_status = WASM_STATUS_LOADED =>
          wasm_runtime_initialized /\ wasm_module # NULL
    /\ wasm_runtime_initialized => wasm_env # NULL /\ wasm_runtime # NULL

\* C33: the worker looks a function up and calls it for an Execute item only
\* when a module is currently loaded: whenever the worker, handling an
\* Execute item, is at the lookup (m3_FindFunction) or at the call that
\* follows it, the runtime is initialized and the module handle is present.
C33_ExecuteOnlyWhenLoaded ==
    worker.msg.type = WASM_MSG_EXECUTE_FUNCTION /\ worker.pc \in {"ex_find", "ex_call"} =>
        wasm_runtime_initialized /\ wasm_module # NULL

\* C32: once an Execute request that was rejected or that failed is fully
\* handled (no handler in progress, the worker waiting), the result slot
\* identifies the failure: a valid result with status Error carries an
\* error_code other than None.
C32_FailedExecuteHasCode ==
    /\ ble.pc = "idle"
    /\ worker = WorkerIdle
    /\ last_result_valid
    /\ last_result.status = WASM_STATUS_ERROR
    => last_result.error_code # WASM_ERROR_NONE

\* C37: a Start or Continue of delivered length len (8 <= len <= 252) whose
\* chunk_size exceeds len - 8, the bytes delivered behind the header, is
\* rejected and copies nothing into the buffer, whatever lies behind the
\* end of the message.
C37_OnlyDeliveredBytesCopied ==
    \A p \in ChunkPackets : \A beyond \in BeyondBytes(p) :
        IsChunk(p) /\ p.chunk_size > p.len - UPLOAD_MIN_LEN
        => LET r == Handled(Here, p, beyond) IN
           /\ Rejected(r)
           /\ r.s.bytes_received = IF IsStart(p) THEN 0 ELSE wasm_bytes_received

\* C36: after a Start has opened a transfer (status Receiving) and while no
\* other write has been handled since, whatever the worker does with the
\* items that were queued before that Start leaves the transfer as the
\* Start made it: status Receiving, next_sequence 1, expected_total within
\* the buffer and received_bytes short of it.
C36_StartKeepsItsTransfer ==
    ble.pc = "idle" /\ ble.last = "start_chunk_accepted"
    => /\ wasm_status = WASM_STATUS_RECEIVING
       /\ wasm_upload_sequence = 1
       /\ wasm_bytes_received < wasm_total_expected

(***************************************************************************)
(* The system under fair scheduling: the worker thread is a Zephyr thread  *)
(* that runs whenever it has a message or a statement to execute, and a    *)
(* transport callback that has queued its item runs on to its return.      *)
(* Writes by the client are not forced.                                    *)
(***************************************************************************)
SpecLive ==
    /\ Init
    /\ [][Next]_vars
    /\ WF_vars(WorkerGet)
    /\ WF_vars(WorkerStep)
    /\ WF_vars(BleExecuteQueued)

\* C34: whenever the status becomes Received, by reaching the declared
\* total or by End, it eventually becomes Loaded or Error, under fair
\* worker scheduling.
C34_ReceivedLeadsToLoadedOrError ==
    (wasm_status = WASM_STATUS_RECEIVED)
        ~> (wasm_status \in {WASM_STATUS_LOADED, WASM_STATUS_ERROR})

\* C35: the status Executing is never left behind: in no reachable state is
\* the status Executing while the queue is empty, the worker waits for a
\* message and no handler is in progress.
C35_ExecutingHasWorkPending ==
    wasm_status = WASM_STATUS_EXECUTING
    => ~(wasm_work_queue = <<>> /\ worker = WorkerIdle /\ ble.pc = "idle")

(***************************************************************************)
(* Recovery.  A client first writes what it likes (at most                 *)
(* MaxRecoverWrites writes, the worker running in between), then follows   *)
(* the recovery procedure: it writes a Reset, waits until the worker has   *)
(* processed it and the queue is empty, uploads a well-formed module with  *)
(* a Start and a Continue in order, waits for the status Loaded and writes *)
(* an Execute.  app.call is the client's step; app.data and app.size keep  *)
(* the status and the queue length the Reset found.  For the well-formed   *)
(* module and its function the runtime's operations succeed.               *)
(***************************************************************************)
MaxRecoverWrites == 5

RecoverPackets ==
    {Start(0, 4, Magic), Start(0, 0, <<>>), Start(0, 4, <<0, 97>>),
     Continue(0, <<115, 109>>)}

RecoverExecutes == {ExecutePacket(SIZEOF_EXECUTE_PACKET, <<97, 100, 100>>, 2)}

RecoverSteps == {"recover_start", "recover_continue", "recover_execute"}

\* the client's upload write p, after which its frame is next
RecoverUploadWrite(p, next) ==
    /\ ~Halted
    /\ ble.pc = "idle"
    /\ LET r == wasm_upload_handler_ble(Statics(<<>>), p, <<>>, AllOk) IN
       /\ SetStatics(r.s)
       /\ ble' = [ble EXCEPT !.last = r.branch, !.m3_calls = r.s.m3_calls,
                             !.accepted = Accepted(@, r.branch)]
    /\ app' = next
    /\ UNCHANGED <<worker, sprite>>

\* The Reset that starts the recovery; a Reset the full queue drops starts
\* nothing.
RecoverReset ==
    /\ app = AppIdle
    /\ MsgqHasRoom(wasm_work_queue)
    /\ RecoverUploadWrite(UploadPacket(WASM_CMD_RESET, 0, 0, 0, <<>>),
                          [app EXCEPT !.call = "recover_reset",
                                      !.data = <<wasm_status>>,
                                      !.size = Len(wasm_work_queue)])

ResetProcessed ==
    /\ app.call = "recover_reset"
    /\ wasm_work_queue = <<>>
    /\ worker = WorkerIdle

RecoverStart ==
    /\ ResetProcessed
    /\ RecoverUploadWrite(Start(0, 4, <<0, 97>>), [app EXCEPT !.call = "recover_start"])

RecoverContinue ==
    /\ app.call = "recover_start"
    /\ RecoverUploadWrite(Continue(1, <<115, 109>>),
                          [app EXCEPT !.call = "recover_continue"])

RecoverExecute ==
    /\ app.call = "recover_continue"
    /\ wasm_status = WASM_STATUS_LOADED
    /\ ~Halted
    /\ ble.pc = "idle"
    /\ \E p \in RecoverExecutes :
          LET r == wasm_execute_handler_ble(Statics(<<>>), p) IN
          /\ SetStatics(r.s)
          /\ ble' = [ble EXCEPT !.pc = IF r.queued THEN "execute_queued" ELSE "idle",
                                !.last = r.branch,
                                !.m3_calls = <<>>]
    /\ app' = [app EXCEPT !.call = "recover_execute"]
    /\ UNCHANGED <<worker, sprite>>

\* the worker on the items of before the recovery: the runtime answers as
\* it likes
StaleWorkerStep == app.call \notin RecoverSteps /\ WorkerStep

\* the worker on the items of the recovery: the runtime's operations succeed
RecoverWorkerStep ==
    /\ app.call \in RecoverSteps
    /\ ~Halted
    /\ worker.pc # "wait"
    /\ \E o \in {w \in WorkerOutcomes(worker) : w.r = "ok" /\ w.results = "ok"} :
          LET n == wasm_work_thread_step(Statics(worker.m3_calls), worker, o) IN
          /\ SetStatics(n.s)
          /\ worker' = [n.l EXCEPT !.m3_calls = n.s.m3_calls]
    /\ UNCHANGED <<ble, sprite, app>>

NextRecover ==
    \/ app = AppIdle /\ BleUploadWrite(RecoverPackets, MaxRecoverWrites)
    \/ app = AppIdle /\ BleExecuteWrite(RecoverExecutes, MaxRecoverWrites)
    \/ BleExecuteQueued
    \/ WorkerGet
    \/ StaleWorkerStep
    \/ RecoverWorkerStep
    \/ RecoverReset
    \/ RecoverStart
    \/ RecoverContinue
    \/ RecoverExecute

SpecRecover ==
    /\ Init
    /\ [][NextRecover]_vars
    /\ WF_vars(WorkerGet)
    /\ WF_vars(StaleWorkerStep)
    /\ WF_vars(RecoverWorkerStep)
    /\ WF_vars(BleExecuteQueued)
    /\ WF_vars(RecoverStart)
    /\ WF_vars(RecoverContinue)
    /\ WF_vars(RecoverExecute)

Recovered ==
    /\ app.call = "recover_execute"
    /\ last_result_valid
    /\ last_result.status = WASM_STATUS_COMPLETE
    /\ last_result.error_code = WASM_ERROR_NONE

\* C31: the session is always recoverable: once a Reset has been processed
\* and the queue is empty, whatever state the Reset found (Error after a
\* rejected chunk or a failed load, stale items in the queue), an in-order
\* upload of a well-formed module reaches Loaded and the Execute that
\* follows produces a result.
C31_Recoverable == ResetProcessed ~> Recovered

\* recovered from a session the Reset found in Error with three stale items
C31_Witness ==
    /\ Recovered
    /\ app.data = <<WASM_STATUS_ERROR>>
    /\ app.size = 3
    /\ wasm_status = WASM_STATUS_LOADED

=============================================================================
